---- MODULE Spec2Model ----
(***************************************************************************)
(* The PCM frame transfer engine and ring-buffer access protocol of        *)
(* src/pcm/pcm.c: snd_pcm_read_areas, snd_pcm_write_areas, snd_pcm_wait,   *)
(* snd_pcm_mmap_begin, snd_pcm_mmap_commit and the state-control wrappers, *)
(* run against a driver (the fast-operation vtable) and the hardware,      *)
(* which advances the hardware pointer concurrently with the application.  *)
(***************************************************************************)
EXTENDS Integers, FiniteSets, Sequences, TLC

\* ------------------------------------------------------------------------
\* Bounds of the model
\* ------------------------------------------------------------------------
MaxBuffer == 3
MaxAlign == 2
MaxSize == 4
MaxCount == 2
MaxHandlers == 2
MaxSamples == 3
MaxChannels == 3
LongRun == 17

\* ------------------------------------------------------------------------
\* Error numbers returned (negated) by the library
\* ------------------------------------------------------------------------
EPIPE == 32
EAGAIN == 11
EBADFD == 77
EINTR == 4
EIO == 5
EINVAL == 22
ENOSYS == 38
EBADF == 9
EALREADY == 114

\* the null pointer
NULL == 0

\* The configuration of the end-to-end playback scenario
ScnBuffer == 4 * 1024
ScnPeriod == 1 * 1024
ScnBoundary == 4 * ScnBuffer

VARIABLES
    \* the handle's configuration (snd_pcm_t fields, fixed once installed)
    stream,          \* pcm->stream: "PLAYBACK" or "CAPTURE"
    nonblock,        \* pcm->mode & SND_PCM_NONBLOCK
    buffer_size,     \* pcm->buffer_size
    boundary,        \* pcm->boundary
    xfer_align,      \* pcm->xfer_align
    start_threshold, \* pcm->start_threshold
    \* the environment: what the application asks for and how the device behaves
    req_sizes,       \* sizes the application passes to the transfer calls
    hw_steps,        \* increments by which the hardware moves its pointer
    sample_bits,     \* pcm->sample_bits
    frame_bits,      \* pcm->frame_bits
    hw_mmap,         \* a configuration of the device maps the buffer (snd_pcm_mmap)
    faults,          \* the vtable and the transfer callback may fail
    hw_buffers,      \* buffer sizes an installed hardware configuration may have
    \* the device
    setup,           \* pcm->setup
    state,           \* what fast_ops->state reports
    hw_ptr,          \* *pcm->hw_ptr
    appl_ptr,        \* *pcm->appl_ptr
    \* the transfer call in progress (locals of snd_pcm_read/write_areas)
    pc,              \* "idle", "again", "wait", "returned", "aborted"
    op,              \* "read", "write", "none"
    lstate,          \* the local `state`
    size,            \* the local `size`: frames remaining
    xfer,            \* the local `xfer`: frames transferred
    err,             \* the local `err`
    frames,          \* the local `frames`: last chunk handed to the callback
    cbret,           \* what the callback returned for that chunk
    ret,             \* the call's return value
    \* history of the call, kept for the properties
    req,             \* requested size after the rounding to xfer_align
    e_state,         \* device state, appl_ptr and hw_ptr when the call was made
    e_appl,
    e_hw,
    ncb,             \* callback invocations in this call
    moved,           \* frames the callback moved in this call
    nwait,           \* waits in this call
    navail,          \* availability queries in this call
    nstart,          \* starts issued by snd_pcm_write_areas since PREPARED was entered
    belowStart,      \* such a start was issued with fewer than start_threshold frames queued
    \* snd_pcm_mmap_begin's last answer
    m_wanted,
    m_offset,
    m_frames,
    m_at,            \* what it read: the availability, and whether the state was RUNNING
    m_areas,         \* "stopped", "running", or "none" before the first answer
    stopped_areas,   \* pcm->stopped_areas is set
    \* the last snd_pcm_mmap_commit
    c_offset,        \* its offset argument
    c_fwd,           \* it reached fast_ops->mmap_commit
    \* asynchronous notification
    async_handlers,  \* pcm->async_handlers: the handlers registered, in list order
    async_mode,      \* the device's asynchronous notification is enabled
    a_id,            \* the handler the last snd_async_add_pcm_handler created, or 0
    a_was_empty,     \* the local `was_empty` of that call
    a_enabled,       \* that call went through snd_pcm_async
    a_args,          \* what ops->async received then, and the process that called
    \* linking
    link_fd,         \* which of the two devices have a link descriptor
    l_group,         \* the devices linked into one group
    l_ioctl,         \* the last link/unlink call reached the driver
    l_args,          \* the devices that call was given
    l_before,        \* the group when it was made
    \* snd_pcm_close
    calls,           \* the operations the last close went through, in order
    cl_setup,        \* pcm->setup when that close was called
    cl_flushes,      \* the drains and drops of the closes since the configuration was installed
    mmap_channels,   \* pcm->mmap_channels is set: the buffer is mapped
    \* the software parameters beside those of the configuration above
    silence_threshold, \* pcm->silence_threshold
    silence_size,      \* pcm->silence_size
    tstamp_mode,       \* pcm->tstamp_mode
    period_step,       \* pcm->period_step
    sleep_min,         \* pcm->sleep_min
    avail_min,         \* pcm->avail_min
    stop_threshold,    \* pcm->stop_threshold
    params,            \* a snd_pcm_sw_params_t container of the application
    \* the sample memory the copy and silence kernels work on
    mem,             \* the memory, one entry for each 4 bits
    k_op,            \* the kernel calls made on it so far
    k_args           \* the arguments of the last one

cfgVars == <<stream, nonblock, buffer_size, boundary, xfer_align, start_threshold,
             req_sizes, hw_steps, faults, hw_buffers, sample_bits, frame_bits,
             hw_mmap>>
cachedVars == <<tstamp_mode, period_step, sleep_min, avail_min, stop_threshold>>
swVars == <<silence_threshold, silence_size, cachedVars, params>>
devVars == <<setup, state, hw_ptr, appl_ptr>>
callVars == <<pc, op, lstate, size, xfer, err, frames, cbret, ret>>
histVars == <<req, e_state, e_appl, e_hw, ncb, moved, nwait, navail>>
startVars == <<nstart, belowStart>>
mmapVars == <<m_wanted, m_offset, m_frames, m_at>>
areaVars == <<m_areas, stopped_areas>>
commitVars == <<c_offset, c_fwd>>
asyncVars == <<async_handlers, async_mode>>
linkVars == <<link_fd, l_group>>
closeVars == <<cl_flushes, mmap_channels>>
auxVars == <<areaVars, asyncVars, linkVars, closeVars>>
noteVars == <<a_id, a_was_empty, a_enabled, a_args, l_ioctl, l_args, l_before, calls, cl_setup>>
memVars == <<mem, k_op, k_args>>
vars == <<cfgVars, swVars, devVars, callVars, histVars, startVars, mmapVars, auxVars, commitVars,
          noteVars, memVars>>

\* the handle modelled and the peer it may be linked with
Devices == {1, 2}

States == {"OPEN", "SETUP", "PREPARED", "RUNNING", "XRUN", "DRAINING", "PAUSED"}

Min(a, b) == IF a < b THEN a ELSE b

Cap(n, m) == IF n < m THEN n ELSE m

\* ------------------------------------------------------------------------
\* Ring-buffer arithmetic
\* ------------------------------------------------------------------------

\* frames the application may write: buffer_size - (appl_ptr - hw_ptr) mod boundary
snd_pcm_mmap_playback_avail(hw, appl) == buffer_size - ((appl - hw) % boundary)

\* frames the application may read: (hw_ptr - appl_ptr) mod boundary
snd_pcm_mmap_capture_avail(hw, appl) == (hw - appl) % boundary

snd_pcm_mmap_avail(hw, appl) ==
    IF stream = "PLAYBACK" THEN snd_pcm_mmap_playback_avail(hw, appl)
    ELSE snd_pcm_mmap_capture_avail(hw, appl)

\* pcm->fast_ops->avail_update
snd_pcm_avail_update == snd_pcm_mmap_avail(hw_ptr, appl_ptr)

\* frames queued in the ring buffer and not yet consumed by the other side
Queued == IF stream = "PLAYBACK" THEN buffer_size - snd_pcm_avail_update
          ELSE snd_pcm_avail_update

\* ------------------------------------------------------------------------
\* Initial states
\* ------------------------------------------------------------------------

\* thresholds tried: start on first data, a threshold inside the buffer, and
\* the boundary (explicit start only)
StartThresholds == {1, MaxBuffer - 1, 2 * MaxBuffer}

\* the enumerations of the software configuration
SND_PCM_TSTAMP_LAST == 1
SND_PCM_START_DATA == 0
SND_PCM_START_EXPLICIT == 1
SND_PCM_XRUN_NONE == 0
SND_PCM_XRUN_STOP == 1

\* the threshold above which the legacy getters read "explicit" and "none":
\* 1024 * 1024
ModeLimit == 1048576

\* ops->async was not called
NoAsync == [sig |-> 0, pid |-> 0, self |-> 0]

\* a container nothing was stored in
NoParams ==
    [filled |-> FALSE, tstamp_mode |-> 0, period_step |-> 0, sleep_min |-> 0,
     avail_min |-> 0, xfer_align |-> 0, start_threshold |-> 0, stop_threshold |-> 0,
     silence_threshold |-> 0, silence_size |-> 0, boundary |-> 0]

\* no call has been made
InitIdle ==
    /\ pc = "idle" /\ op = "none" /\ lstate = "OPEN"
    /\ size = 0 /\ xfer = 0 /\ err = 0 /\ frames = 0 /\ cbret = 0 /\ ret = 0
    /\ req = 0 /\ e_state = "OPEN" /\ e_appl = 0 /\ e_hw = 0
    /\ ncb = 0 /\ moved = 0 /\ nwait = 0 /\ navail = 0
    /\ nstart = 0 /\ belowStart = FALSE
    /\ m_wanted = 0 /\ m_offset = 0 /\ m_frames = 0
    /\ m_at = [avail |-> 0, running |-> FALSE]
    /\ m_areas = "none" /\ c_offset = 0 /\ c_fwd = FALSE
    /\ async_handlers = <<>> /\ async_mode = FALSE
    /\ a_id = 0 /\ a_was_empty = FALSE /\ a_enabled = FALSE /\ a_args = NoAsync
    /\ l_group = {} /\ l_ioctl = FALSE /\ l_args = <<>> /\ l_before = {}
    /\ calls = <<>> /\ cl_setup = FALSE
    /\ cl_flushes = 0 /\ mmap_channels = FALSE
    /\ silence_threshold = 0 /\ silence_size = 0 /\ params = NoParams
    /\ tstamp_mode = 0 /\ period_step = 1 /\ sleep_min = 0 /\ avail_min = 1
    /\ stop_threshold = MaxBuffer

\* the handle's calls do not touch sample memory
InitCall == InitIdle /\ mem = <<>> /\ k_op = "none" /\ k_args = <<>>

\* snd_pcm_new: a handle in state OPEN, nothing installed
Init ==
    /\ stream \in {"PLAYBACK", "CAPTURE"}
    /\ nonblock \in BOOLEAN
    /\ buffer_size = MaxBuffer
    /\ boundary = 2 * MaxBuffer
    /\ xfer_align \in 1..MaxAlign
    /\ start_threshold \in StartThresholds
    /\ req_sizes = 0..MaxSize
    /\ hw_steps = 1..MaxBuffer
    /\ hw_mmap = FALSE
    /\ sample_bits = 16 /\ frame_bits = 16
    /\ faults = TRUE
    /\ hw_buffers = {buffer_size}
    /\ setup = FALSE /\ state = "OPEN" /\ hw_ptr = 0 /\ appl_ptr = 0
    /\ stopped_areas = FALSE
    /\ link_fd = [d \in Devices |-> FALSE]
    /\ InitCall

\* ------------------------------------------------------------------------
\* The driver: state machine behind the fast-operation vtable
\* ------------------------------------------------------------------------

\* fast_ops->prepare: result state, or the unchanged state when illegal
PrepareLegal(st) == st \in {"SETUP", "PREPARED", "RUNNING", "XRUN", "PAUSED"}

\* fast_ops->start: PREPARED -> RUNNING, illegal from any other state
StartLegal(st) == st = "PREPARED"

StartResult(st) == IF StartLegal(st) THEN 0 ELSE -EBADFD

\* what fast_ops->start may return
StartReturns(st) ==
    IF faults /\ StartLegal(st) THEN {StartResult(st), -EIO} ELSE {StartResult(st)}

StartState(st) == IF StartLegal(st) THEN "RUNNING" ELSE st

\* the application is between two calls
Idle == pc = "idle"

\* a failed assert() ends the process
Abort ==
    /\ pc' = "aborted"
    /\ UNCHANGED <<cfgVars, swVars, memVars, auxVars, commitVars, noteVars, devVars, op, lstate, size, xfer, err, frames, cbret, ret,
                   histVars, startVars, mmapVars>>

\* the pointers are reset and PREPARED is entered afresh
EnterPrepared(ptr) ==
    /\ state' = "PREPARED" /\ hw_ptr' = ptr /\ appl_ptr' = ptr
    /\ nstart' = 0 /\ belowStart' = FALSE

\* what an operation of the vtable may return
OpReturns == IF faults THEN {0, -EIO} ELSE {0}

\* the state _snd_pcm_hw_params leaves the device in
HwParamsState(st) == "SETUP"

\* HwParamsPrepare without the call of snd_pcm_prepare
HwParamsPrepare_Never(e) == FALSE

\* if (err < 0) return err; err = snd_pcm_prepare(pcm);
HwParamsPrepare(e) == e >= 0

\* the history of a call that is not a transfer
EnterAccess(o, f) ==
    /\ op' = o /\ req' = f
    /\ e_state' = state /\ e_appl' = appl_ptr /\ e_hw' = hw_ptr
    /\ UNCHANGED <<lstate, size, xfer, err, frames, cbret, ncb, moved, nwait, navail>>

\* snd_pcm_hw_params: _snd_pcm_hw_params installs a configuration of bs frames
\* and answers e, then snd_pcm_prepare answers p
snd_pcm_hw_params(bs) ==
    /\ Idle
    /\ state \in {"OPEN", "SETUP"}
    /\ \E e \in OpReturns, p \in OpReturns :
          IF e < 0
          THEN /\ ret' = e
               /\ UNCHANGED <<devVars, buffer_size, startVars, closeVars>>
          ELSE /\ setup' = TRUE
               /\ buffer_size' = bs
               /\ mmap_channels' = hw_mmap /\ cl_flushes' = 0
               /\ IF HwParamsPrepare(e) /\ p >= 0
                  THEN EnterPrepared(0) /\ ret' = p
                  ELSE /\ state' = HwParamsState(state)
                       /\ ret' = (IF HwParamsPrepare(e) THEN p ELSE e)
                       /\ UNCHANGED <<hw_ptr, appl_ptr, startVars>>
    /\ pc' = "returned"
    /\ EnterAccess("hw_params", bs)
    /\ UNCHANGED <<stream, nonblock, boundary, xfer_align, start_threshold, req_sizes,
                   hw_steps, faults, hw_buffers, sample_bits, frame_bits, hw_mmap, swVars,
                   memVars, areaVars, asyncVars, linkVars, commitVars,
                   noteVars, mmapVars>>

snd_pcm_prepare ==
    /\ Idle
    /\ IF ~setup THEN Abort
       ELSE /\ PrepareLegal(state)
            /\ EnterPrepared(0)
            /\ UNCHANGED <<cfgVars, swVars, memVars, auxVars, commitVars, noteVars, setup, callVars, histVars, mmapVars>>

snd_pcm_start ==
    /\ Idle
    /\ IF ~setup THEN Abort
       ELSE /\ StartLegal(state)
            /\ state' = StartState(state)
            /\ UNCHANGED <<cfgVars, swVars, memVars, auxVars, commitVars, noteVars, setup, hw_ptr, appl_ptr, callVars, histVars,
                           startVars, mmapVars>>

\* drop: any configured state -> PREPARED, the queued frames are discarded
snd_pcm_drop ==
    /\ Idle
    /\ IF ~setup THEN Abort
       ELSE /\ state # "OPEN"
            /\ EnterPrepared(hw_ptr)
            /\ UNCHANGED <<cfgVars, swVars, memVars, auxVars, commitVars, noteVars, setup, callVars, histVars, mmapVars>>

snd_pcm_drain ==
    /\ Idle
    /\ IF ~setup THEN Abort
       ELSE /\ state \in {"PREPARED", "RUNNING"}
            /\ state' = "DRAINING"
            /\ UNCHANGED <<cfgVars, swVars, memVars, auxVars, commitVars, noteVars, setup, hw_ptr, appl_ptr, callVars, histVars,
                           startVars, mmapVars>>

snd_pcm_pause(enable) ==
    /\ Idle
    /\ IF ~setup THEN Abort
       ELSE /\ state = (IF enable THEN "RUNNING" ELSE "PAUSED")
            /\ state' = (IF enable THEN "PAUSED" ELSE "RUNNING")
            /\ UNCHANGED <<cfgVars, swVars, memVars, auxVars, commitVars, noteVars, setup, hw_ptr, appl_ptr, callVars, histVars,
                           startVars, mmapVars>>

\* ------------------------------------------------------------------------
\* The hardware: advances the hardware pointer while the stream runs
\* ------------------------------------------------------------------------

\* frames the hardware can still play (playback) or store (capture)
HwRoom == IF stream = "PLAYBACK" THEN Queued ELSE buffer_size - Queued

\* the hardware runs as long as the process does
HwRuns == pc \notin {"returned", "aborted"}

hw_advance(k) ==
    /\ HwRuns
    /\ state = "RUNNING" \/ (state = "DRAINING" /\ stream = "PLAYBACK")
    /\ k <= HwRoom
    /\ hw_ptr' = (hw_ptr + k) % boundary
    /\ UNCHANGED <<cfgVars, swVars, memVars, auxVars, commitVars, noteVars, setup, state, appl_ptr, callVars, histVars, startVars,
                   mmapVars>>

\* underrun (nothing left to play) or overrun (no room left to store)
hw_xrun ==
    /\ HwRuns
    /\ state = "RUNNING"
    /\ HwRoom = 0
    /\ state' = "XRUN"
    /\ UNCHANGED <<cfgVars, swVars, memVars, auxVars, commitVars, noteVars, setup, hw_ptr, appl_ptr, callVars, histVars, startVars,
                   mmapVars>>

\* a draining playback stream has played everything
hw_drained ==
    /\ HwRuns
    /\ state = "DRAINING" /\ stream = "PLAYBACK"
    /\ Queued = 0
    /\ state' = "PREPARED"
    /\ nstart' = 0 /\ belowStart' = FALSE
    /\ UNCHANGED <<cfgVars, swVars, memVars, auxVars, commitVars, noteVars, setup, hw_ptr, appl_ptr, callVars, histVars, mmapVars>>

\* ------------------------------------------------------------------------
\* The transfer engine: snd_pcm_read_areas and snd_pcm_write_areas
\* ------------------------------------------------------------------------

\* AlignDown rounding the values below one unit too
AlignDown_Always(n, a) == n - (n % a)

\* if (size > pcm->xfer_align) size -= size % pcm->xfer_align;
AlignDown(n, a) == IF n > a THEN n - (n % a) ELSE n

\* WriteGate with the XRUN case missing
WriteGate_XrunGoesOn(st) ==
    IF st \in {"PREPARED", "RUNNING", "XRUN"} THEN 0 ELSE -EBADFD

\* WriteGate with the cases of the read switch
WriteGate_AsRead(st) ==
    IF st \in {"PREPARED", "DRAINING", "RUNNING"} THEN 0
    ELSE IF st = "XRUN" THEN -EPIPE
    ELSE -EBADFD

\* the switch (state) of snd_pcm_write_areas: 0 to go on, or the error returned
WriteGate(st) ==
    IF st \in {"PREPARED", "RUNNING"} THEN 0
    ELSE IF st = "XRUN" THEN -EPIPE
    ELSE -EBADFD

\* the switch (state) of snd_pcm_read_areas
ReadGate(st) ==
    IF st \in {"PREPARED", "DRAINING", "RUNNING"} THEN 0
    ELSE IF st = "XRUN" THEN -EPIPE
    ELSE -EBADFD

\* XferResult with the error taking precedence over the frames transferred
XferResult_ErrFirst(x, e) == IF e < 0 THEN e ELSE x

\* return xfer > 0 ? (snd_pcm_sframes_t) xfer : err;
XferResult(x, e) == IF x > 0 THEN x ELSE e

\* MustWait for a request of more than one alignment unit only
MustWait_MoreThanOne(sz, avail) == avail = 0 \/ (sz > xfer_align /\ avail < xfer_align)

\* avail == 0 || (size >= pcm->xfer_align && avail < pcm->xfer_align)
MustWait(sz, avail) == avail = 0 \/ (sz >= xfer_align /\ avail < xfer_align)

\* what one iteration of the write loop does with the availability it read
WriteDecision(st, sz, avail) ==
    IF avail < 0 THEN "epipe"
    ELSE IF st = "PREPARED" THEN (IF avail = 0 THEN "epipe" ELSE "xfer")
    ELSE IF MustWait(sz, avail) THEN "wait"
    ELSE "xfer"

\* ReadDecision without the DRAINING case
ReadDecision_NoDrain(st, sz, avail) ==
    IF avail < 0 THEN "epipe"
    ELSE IF MustWait(sz, avail) THEN "wait"
    ELSE "xfer"

\* what one iteration of the read loop does with the availability it read
ReadDecision(st, sz, avail) ==
    IF avail < 0 THEN "epipe"
    ELSE IF st = "DRAINING" THEN (IF avail = 0 THEN "epipe" ELSE "xfer")
    ELSE IF MustWait(sz, avail) THEN "wait"
    ELSE "xfer"

\* frames = size; if (frames > avail) frames = avail;  (avail already rounded)
ChunkFrames(sz, ravail) == IF sz > ravail THEN ravail ELSE sz

\* HwAvail without the chunk just written
HwAvail_NoChunk(ravail, f) == buffer_size - ravail

\* hw_avail = pcm->buffer_size - avail; hw_avail += frames;  (avail already rounded)
HwAvail(ravail, f) == (buffer_size - ravail) + f

\* if (hw_avail >= (snd_pcm_sframes_t) pcm->start_threshold) snd_pcm_start(pcm)
WriteStarts(st, ravail, f) == st = "PREPARED" /\ HwAvail(ravail, f) >= start_threshold

\* ReadStarts whatever the size of the request
ReadStarts_AnySize(st, sz) == st = "PREPARED"

\* if (size >= pcm->start_threshold) snd_pcm_start(pcm)   (read, PREPARED)
ReadStarts(st, sz) == st = "PREPARED" /\ sz >= start_threshold

\* what the transfer callback may return for a chunk of f frames
CallbackReturns(f) == IF faults THEN {-EIO} \cup (0..f) ELSE {f}

\* the callback moves the application pointer by the frames it transferred
AdvanceAppl(ptr, n) == (ptr + n) % boundary

\* the values one step of a transfer call works on
Cur ==
    [pc |-> pc, size |-> size, xfer |-> xfer, err |-> err, frames |-> frames,
     cbret |-> cbret, ret |-> ret, appl |-> appl_ptr, st |-> state, lst |-> lstate,
     ncb |-> ncb, moved |-> moved, nwait |-> nwait,
     nstart |-> nstart, below |-> belowStart]

\* _end: return xfer > 0 ? xfer : err
EndCall(c, e) ==
    [c EXCEPT !.pc = "returned", !.err = e, !.ret = XferResult(c.xfer, e)]

\* a direct return of v
ReturnNow(c, v) == [c EXCEPT !.pc = "returned", !.ret = v]

Aborted(c) == [c EXCEPT !.pc = "aborted"]

\* snd_pcm_start issued from inside a transfer call, the driver answering s
IssueStart(c, s) ==
    [c EXCEPT !.err = s, !.st = IF s < 0 THEN c.st ELSE StartState(c.st)]

\* AfterCallback accounting for what the callback returned, without the assertion
AfterCallback_Partial(c, f, r) ==
    LET d == [c EXCEPT !.frames = f, !.cbret = r, !.ncb = Cap(c.ncb + 1, MaxCount)]
    IN  IF r < 0 THEN EndCall(d, r)
        ELSE [d EXCEPT !.appl = AdvanceAppl(c.appl, r), !.moved = c.moved + r,
                       !.err = r, !.size = c.size - r, !.xfer = c.xfer + r]

\* the chunk of f frames is handed to the callback, which returns r
AfterCallback(c, f, r) ==
    LET d == [c EXCEPT !.frames = f, !.cbret = r, !.ncb = Cap(c.ncb + 1, MaxCount)]
    IN  IF r < 0 THEN EndCall(d, r)
        ELSE LET m == [d EXCEPT !.appl = AdvanceAppl(c.appl, r),
                                !.moved = c.moved + r, !.err = r]
             IN  IF r # f THEN Aborted(m)
                 ELSE [m EXCEPT !.size = c.size - f, !.xfer = c.xfer + f]

\* LoopOrEnd leaving the loop after the first chunk
LoopOrEnd_Once(c) == EndCall(c, c.err)

\* the end of an iteration: loop while (size > 0), else fall to _end
LoopOrEnd(c) == IF c.size > 0 THEN [c EXCEPT !.pc = "again"] ELSE EndCall(c, c.err)

\* WouldBlock suspending the call whatever the mode
WouldBlock_Suspends(c, nb) ==
    [c EXCEPT !.pc = "wait", !.nwait = Cap(c.nwait + 1, MaxCount)]

\* if (pcm->mode & SND_PCM_NONBLOCK) { err = -EAGAIN; goto _end; }
\* err = snd_pcm_wait(pcm, -1);
WouldBlock(c, nb) ==
    IF nb THEN EndCall(c, -EAGAIN)
    ELSE [c EXCEPT !.pc = "wait", !.nwait = Cap(c.nwait + 1, MaxCount)]

\* the write loop's auto-start after a chunk of f frames (avail already rounded)
WriteAutoStart(c, ravail, f, sr) ==
    IF WriteStarts(c.lst, ravail, f)
    THEN LET s == IssueStart(c, sr)
             q == buffer_size - snd_pcm_mmap_avail(hw_ptr, c.appl)
             g == [s EXCEPT !.nstart = Cap(c.nstart + 1, MaxCount),
                            !.below = c.below \/ q < start_threshold]
         IN  IF g.err < 0 THEN EndCall(g, g.err) ELSE LoopOrEnd(g)
    ELSE LoopOrEnd(c)

\* one pass through the body of the write loop, the callback returning r and
\* the driver answering sr to a start
WriteIter(c, avail, r, sr) ==
    LET dec == WriteDecision(c.lst, c.size, avail)
        ravail == AlignDown(avail, xfer_align)
        f == ChunkFrames(c.size, ravail)
    IN  IF dec = "epipe" THEN EndCall(c, -EPIPE)
        ELSE IF dec = "wait"
             THEN WouldBlock(c, nonblock)
        ELSE IF f = 0 THEN Aborted(c)
        ELSE LET a == AfterCallback(c, f, r)
             IN  IF a.pc # "again" THEN a ELSE WriteAutoStart(a, ravail, f, sr)

\* one pass through the body of the read loop, the callback returning r
ReadIter(c, avail, r) ==
    LET dec == ReadDecision(c.lst, c.size, avail)
        ravail == AlignDown(avail, xfer_align)
        f == ChunkFrames(c.size, ravail)
    IN  IF dec = "epipe" THEN EndCall(c, -EPIPE)
        ELSE IF dec = "wait"
             THEN WouldBlock(c, nonblock)
        ELSE IF f = 0 THEN Aborted(c)
        ELSE LET a == AfterCallback(c, f, r)
             IN  IF a.pc # "again" THEN a ELSE LoopOrEnd(a)

\* the callback returns the loop has to consider in this iteration
IterReturns(dec, f) == IF dec = "xfer" /\ f > 0 THEN CallbackReturns(f) ELSE {0}

\* the step's results are stored
Store(c) ==
    /\ pc' = c.pc /\ size' = c.size /\ xfer' = c.xfer /\ err' = c.err
    /\ frames' = c.frames /\ cbret' = c.cbret /\ ret' = c.ret
    /\ appl_ptr' = c.appl /\ state' = c.st /\ lstate' = c.lst
    /\ ncb' = c.ncb /\ moved' = c.moved /\ nwait' = c.nwait
    /\ nstart' = c.nstart /\ belowStart' = c.below

\* the locals and the history at the entry of a transfer call of sz frames
Entry(sz) ==
    [Cur EXCEPT !.pc = "again", !.size = AlignDown(sz, xfer_align), !.xfer = 0,
                !.err = 0, !.frames = 0, !.cbret = 0, !.ret = 0, !.lst = state,
                !.ncb = 0, !.moved = 0, !.nwait = 0]

EnterCall(o, sz) ==
    /\ op' = o
    /\ req' = AlignDown(sz, xfer_align)
    /\ e_state' = state /\ e_appl' = appl_ptr /\ e_hw' = hw_ptr
    /\ navail' = 0
    /\ UNCHANGED <<cfgVars, swVars, memVars, auxVars, commitVars, noteVars, setup, hw_ptr, mmapVars>>

\* the entry of snd_pcm_write_areas, up to the loop
WriteEntry(sz) ==
    LET c == Entry(sz)
    IN  IF sz = 0 THEN ReturnNow(c, 0)
        ELSE IF WriteGate(c.lst) # 0 THEN ReturnNow(c, WriteGate(c.lst))
        ELSE c

\* the entry of snd_pcm_read_areas, up to the loop, the driver answering sr to
\* a start
ReadEntry(sz, sr) ==
    LET c == Entry(sz)
    IN  IF sz = 0 THEN ReturnNow(c, 0)
        ELSE IF ReadGate(c.lst) # 0 THEN ReturnNow(c, ReadGate(c.lst))
        ELSE IF ReadStarts(c.lst, c.size)
             THEN LET s == IssueStart(c, sr)
                  IN  IF s.err < 0 THEN EndCall(s, s.err) ELSE s
        ELSE c

\* snd_pcm_writei / snd_pcm_writen: assert(pcm->setup), then snd_pcm_write_areas
snd_pcm_writei(sz) ==
    /\ Idle
    /\ stream = "PLAYBACK"
    /\ IF ~setup THEN Abort
       ELSE Store(WriteEntry(sz)) /\ EnterCall("write", sz)

\* snd_pcm_readi / snd_pcm_readn: assert(pcm->setup), then snd_pcm_read_areas
snd_pcm_readi(sz) ==
    /\ Idle
    /\ stream = "CAPTURE"
    /\ IF ~setup THEN Abort
       ELSE /\ \E sr \in StartReturns(state) : Store(ReadEntry(sz, sr))
            /\ EnterCall("read", sz)

InLoop(o) ==
    /\ pc = "again" /\ op = o
    /\ navail' = Cap(navail + 1, MaxCount)
    /\ UNCHANGED <<cfgVars, swVars, memVars, auxVars, commitVars, noteVars, setup, hw_ptr, op, req, e_state, e_appl, e_hw, mmapVars>>

\* _again: one iteration of the loop of snd_pcm_write_areas
write_areas_again ==
    /\ InLoop("write")
    /\ LET avail == snd_pcm_avail_update
           f == ChunkFrames(size, AlignDown(avail, xfer_align))
       IN  \E r \in IterReturns(WriteDecision(lstate, size, avail), f),
              sr \in StartReturns(state) :
               Store(WriteIter(Cur, avail, r, sr))

\* _again: one iteration of the loop of snd_pcm_read_areas
read_areas_again ==
    /\ InLoop("read")
    /\ LET avail == snd_pcm_avail_update
           f == ChunkFrames(size, AlignDown(avail, xfer_align))
       IN  \E r \in IterReturns(ReadDecision(lstate, size, avail), f) :
               Store(ReadIter(Cur, avail, r))

\* WaitState keeping the state read before the wait
WaitState_Cached(lst, st) == lst

\* state = snd_pcm_state(pcm);  (after snd_pcm_wait returned 0)
WaitState(lst, st) == st

\* poll() has something to report: frames are available
PollReady == snd_pcm_avail_update > 0

\* snd_pcm_wait(pcm, -1) returns 0: state = snd_pcm_state(pcm); goto _again
snd_pcm_wait_ready ==
    /\ pc = "wait"
    /\ PollReady
    /\ Store([Cur EXCEPT !.pc = "again", !.err = 0, !.lst = WaitState(lstate, state)])
    /\ UNCHANGED <<cfgVars, swVars, memVars, auxVars, commitVars, noteVars, setup, hw_ptr, op, req, e_state, e_appl, e_hw, navail,
                   mmapVars>>

\* WaitSignal going back to the head of the loop with the state read again
WaitSignal_Rechecks(c) == [c EXCEPT !.pc = "again", !.lst = c.st]

\* err = snd_pcm_wait(pcm, -1); if (err < 0) break;   (err is -errno of poll())
WaitSignal(c) == EndCall(c, -EINTR)

\* snd_pcm_wait(pcm, -1) returns -errno, poll() interrupted by a signal: break
snd_pcm_wait_signal ==
    /\ pc = "wait"
    /\ Store(WaitSignal(Cur))
    /\ UNCHANGED <<cfgVars, swVars, memVars, auxVars, commitVars, noteVars, setup, hw_ptr, op, req, e_state, e_appl, e_hw, navail,
                   mmapVars>>

\* the call has returned to the application, which goes on; the locals are gone
app_continue ==
    /\ pc = "returned"
    /\ pc' = "idle" /\ op' = "none" /\ lstate' = "OPEN"
    /\ size' = 0 /\ xfer' = 0 /\ err' = 0 /\ frames' = 0 /\ cbret' = 0 /\ ret' = 0
    /\ req' = 0 /\ e_state' = "OPEN" /\ e_appl' = 0 /\ e_hw' = 0
    /\ ncb' = 0 /\ moved' = 0 /\ nwait' = 0 /\ navail' = 0
    /\ c_offset' = 0 /\ c_fwd' = FALSE
    /\ a_id' = 0 /\ a_was_empty' = FALSE /\ a_enabled' = FALSE /\ a_args' = NoAsync
    /\ l_ioctl' = FALSE /\ l_args' = <<>> /\ l_before' = {}
    /\ calls' = <<>> /\ cl_setup' = FALSE
    /\ UNCHANGED <<cfgVars, swVars, memVars, auxVars, devVars, startVars, mmapVars>>

\* ------------------------------------------------------------------------
\* The memory-mapped access protocol: snd_pcm_mmap_begin / snd_pcm_mmap_commit
\* ------------------------------------------------------------------------

\* *offset = *pcm->appl_ptr % pcm->buffer_size
MmapOffset(appl) == appl % buffer_size

\* MmapFrames without the clamp to the end of the buffer
MmapFrames_NoCont(wanted, avail, cont) == IF wanted > avail THEN avail ELSE wanted

\* f = *frames; if (f > avail) f = avail; if (f > cont) f = cont;
MmapFrames(wanted, avail, cont) ==
    LET f == IF wanted > avail THEN avail ELSE wanted
    IN  IF f > cont THEN cont ELSE f

\* MmapAreas returning the stopped areas only before the device was started
MmapAreas_BeforeStart(st) ==
    IF stopped_areas /\ st \in {"OPEN", "SETUP", "PREPARED"} THEN "stopped" ELSE "running"

\* MmapAreas answering for the state in which the handle was prepared
MmapAreas_Prepared(st) ==
    IF stopped_areas /\ st \notin {"RUNNING", "XRUN"} THEN "stopped" ELSE "running"

\* if (pcm->stopped_areas && snd_pcm_state(pcm) != SND_PCM_STATE_RUNNING)
\*     *areas = pcm->stopped_areas; else *areas = pcm->running_areas;
MmapAreas(st) ==
    IF stopped_areas /\ st # "RUNNING" THEN "stopped" ELSE "running"

snd_pcm_mmap_begin(wanted) ==
    /\ Idle
    /\ setup
    /\ LET offset == MmapOffset(appl_ptr)
           cont == buffer_size - offset
           avail == snd_pcm_mmap_avail(hw_ptr, appl_ptr)
       IN  /\ m_areas' = MmapAreas(state)
           /\ m_wanted' = wanted
           /\ m_offset' = offset
           /\ m_frames' = MmapFrames(wanted, avail, cont)
           /\ m_at' = [avail |-> avail, running |-> state = "RUNNING"]
    /\ pc' = "returned" /\ ret' = 0
    /\ EnterAccess("begin", wanted)
    /\ UNCHANGED <<cfgVars, swVars, memVars, stopped_areas, asyncVars, linkVars, closeVars,
                   commitVars, noteVars,
                   devVars, startVars>>

\* pcm->fast_ops->mmap_commit: the application pointer advances by frames
MmapCommitAppl(appl, f) == (appl + f) % boundary

\* what fast_ops->mmap_commit may return
CommitReturns == IF faults THEN {0, -EIO} ELSE {0}

\* MmapCommitOk with the assertions compiled out
MmapCommitOk_NoAssert(offset, f, appl, avail) == TRUE

\* MmapCommitOk without the test of the frames
MmapCommitOk_AnyFrames(offset, f, appl, avail) == offset = MmapOffset(appl)

\* assert(offset == *pcm->appl_ptr % pcm->buffer_size);
\* assert(frames <= snd_pcm_mmap_avail(pcm));
MmapCommitOk(offset, f, appl, avail) == offset = MmapOffset(appl) /\ f <= avail

\* snd_pcm_mmap_commit(pcm, offset, frames)
snd_pcm_mmap_commit(offset, f) ==
    /\ Idle
    /\ setup
    /\ c_offset' = offset
    /\ EnterAccess("commit", f)
    /\ IF ~MmapCommitOk(offset, f, appl_ptr, snd_pcm_mmap_avail(hw_ptr, appl_ptr))
       THEN /\ pc' = "aborted"
            /\ UNCHANGED <<appl_ptr, ret, c_fwd>>
       ELSE /\ pc' = "returned"
            /\ c_fwd' = TRUE
            /\ \E r \in CommitReturns :
                   /\ ret' = r
                   /\ appl_ptr' = IF r < 0 THEN appl_ptr ELSE MmapCommitAppl(appl_ptr, f)
    /\ UNCHANGED <<cfgVars, swVars, memVars, auxVars, noteVars, setup, state, hw_ptr, startVars, mmapVars>>


\* ------------------------------------------------------------------------
\* The position calls: snd_pcm_reset, snd_pcm_rewind, snd_pcm_delay,
\* snd_pcm_avail_update
\* ------------------------------------------------------------------------

\* the states in which the driver moves the application pointer on request
PositionStates == {"PREPARED", "RUNNING", "PAUSED"}

\* what a position call leaves alone
PositionFrame ==
    UNCHANGED <<cfgVars, swVars, memVars, auxVars, commitVars, noteVars, setup, state,
                hw_ptr, startVars, mmapVars>>

\* fast_ops->reset: the delay is reduced to 0
ResetAppl(hw, appl) == hw

\* snd_pcm_reset(pcm)
snd_pcm_reset ==
    /\ Idle
    /\ IF ~setup THEN Abort
       ELSE /\ state \in PositionStates
            /\ \E r \in OpReturns :
                  /\ ret' = r
                  /\ appl_ptr' = IF r < 0 THEN appl_ptr ELSE ResetAppl(hw_ptr, appl_ptr)
            /\ pc' = "returned"
            /\ EnterAccess("reset", 0)
            /\ PositionFrame

\* frames the application pointer may be moved back by
Rewindable == IF stream = "PLAYBACK" THEN Queued ELSE buffer_size - Queued

\* fast_ops->rewind: the displacement granted
RewindFrames(fr) == Min(fr, Rewindable)

\* snd_pcm_rewind(pcm, frames)
snd_pcm_rewind(fr) ==
    /\ Idle
    /\ IF ~setup \/ fr = 0 THEN Abort
       ELSE /\ state \in PositionStates
            /\ ret' = RewindFrames(fr)
            /\ appl_ptr' = (appl_ptr - RewindFrames(fr)) % boundary
            /\ pc' = "returned"
            /\ EnterAccess("rewind", fr)
            /\ PositionFrame

\* snd_pcm_delay(pcm, &delay)
snd_pcm_delay ==
    /\ Idle
    /\ IF ~setup THEN Abort
       ELSE /\ state \in PositionStates
            /\ ret' \in OpReturns
            /\ pc' = "returned"
            /\ EnterAccess("delay", 0)
            /\ UNCHANGED appl_ptr
            /\ PositionFrame

\* what fast_ops->avail_update answers on a handle with no configuration
AvailUnconfigured == {0, -EIO}

\* a call of snd_pcm_avail_update(pcm) by the application: straight to
\* fast_ops->avail_update, whether a configuration is installed or not
avail_update ==
    /\ Idle
    /\ ret' \in (IF setup THEN {snd_pcm_avail_update} ELSE AvailUnconfigured)
    /\ pc' = "returned"
    /\ EnterAccess("avail_update", 0)
    /\ UNCHANGED appl_ptr
    /\ PositionFrame

\* the position calls
Position ==
    \/ snd_pcm_reset
    \/ \E fr \in 0..MaxSize : snd_pcm_rewind(fr)
    \/ snd_pcm_delay
    \/ avail_update


\* ------------------------------------------------------------------------
\* The software configuration: snd_pcm_sw_params_current, the setters of the
\* silence parameters, snd_pcm_sw_params
\* ------------------------------------------------------------------------

\* what a call on the container leaves alone
ContainerFrame ==
    UNCHANGED <<cfgVars, silence_threshold, silence_size, cachedVars, memVars, auxVars,
                commitVars, noteVars, devVars, startVars, mmapVars>>

\* snd_pcm_sw_params_current(pcm, params): the container receives the values
\* the handle holds
snd_pcm_sw_params_current ==
    /\ Idle
    /\ IF ~setup THEN Abort
       ELSE /\ params' = [filled |-> TRUE, tstamp_mode |-> tstamp_mode,
                          period_step |-> period_step, sleep_min |-> sleep_min,
                          avail_min |-> avail_min, xfer_align |-> xfer_align,
                          start_threshold |-> start_threshold,
                          stop_threshold |-> stop_threshold,
                          silence_threshold |-> silence_threshold,
                          silence_size |-> silence_size, boundary |-> boundary]
            /\ ret' = 0 /\ pc' = "returned"
            /\ EnterAccess("sw_params_current", 0)
            /\ ContainerFrame

\* assert(val + params->silence_size <= pcm->buffer_size);
\* assert(val + params->silence_threshold <= pcm->buffer_size);
SilenceFits(val, other) == val + other <= buffer_size

\* snd_pcm_sw_params_set_silence_threshold(pcm, params, val)
snd_pcm_sw_params_set_silence_threshold(val) ==
    /\ Idle
    /\ params.filled
    /\ IF ~SilenceFits(val, params.silence_size) THEN Abort
       ELSE /\ params' = [params EXCEPT !.silence_threshold = val]
            /\ ret' = 0 /\ pc' = "returned"
            /\ EnterAccess("set_silence_threshold", val)
            /\ ContainerFrame

\* snd_pcm_sw_params_set_silence_size(pcm, params, val)
snd_pcm_sw_params_set_silence_size(val) ==
    /\ Idle
    /\ params.filled
    /\ IF ~SilenceFits(val, params.silence_threshold) THEN Abort
       ELSE /\ params' = [params EXCEPT !.silence_size = val]
            /\ ret' = 0 /\ pc' = "returned"
            /\ EnterAccess("set_silence_size", val)
            /\ ContainerFrame

\* SwInstalls whatever the driver answered
SwInstalls_Always(e) == TRUE

\* err = pcm->ops->sw_params(pcm->op_arg, params); if (err < 0) return err;
SwInstalls(e) == ~(e < 0)

\* snd_pcm_sw_params(pcm, params): the driver is asked first; the handle takes
\* the fields of the container when the driver accepted them
snd_pcm_sw_params ==
    /\ Idle
    /\ setup /\ params.filled
    /\ \E e \in OpReturns :
          /\ ret' = e
          /\ IF ~SwInstalls(e)
             THEN UNCHANGED <<xfer_align, start_threshold, boundary, silence_threshold,
                              silence_size, cachedVars>>
             ELSE /\ tstamp_mode' = params.tstamp_mode
                  /\ period_step' = params.period_step
                  /\ sleep_min' = params.sleep_min
                  /\ avail_min' = params.avail_min
                  /\ xfer_align' = params.xfer_align
                  /\ start_threshold' = params.start_threshold
                  /\ stop_threshold' = params.stop_threshold
                  /\ silence_threshold' = params.silence_threshold
                  /\ silence_size' = params.silence_size
                  /\ boundary' = params.boundary
    /\ pc' = "returned"
    /\ EnterAccess("sw_params", 0)
    /\ UNCHANGED <<stream, nonblock, buffer_size, req_sizes, hw_steps, faults, hw_buffers,
                   sample_bits, frame_bits, hw_mmap,
                   params, memVars, auxVars, commitVars, noteVars, devVars, startVars,
                   mmapVars>>

\* the calls on the software configuration
SwParams ==
    \/ snd_pcm_sw_params_current
    \/ \E val \in 0..MaxBuffer : snd_pcm_sw_params_set_silence_threshold(val)
    \/ \E val \in 0..MaxBuffer : snd_pcm_sw_params_set_silence_size(val)
    \/ snd_pcm_sw_params

\* a setter that stores into the container and answers 0
ContainerSet(o, val, p) ==
    /\ params' = p
    /\ ret' = 0 /\ pc' = "returned"
    /\ EnterAccess(o, val)
    /\ ContainerFrame

\* assert(val <= SND_PCM_TSTAMP_LAST); params->tstamp_mode = val;
snd_pcm_sw_params_set_tstamp_mode(val) ==
    /\ Idle
    /\ params.filled
    /\ IF ~(val <= SND_PCM_TSTAMP_LAST) THEN Abort
       ELSE ContainerSet("set_tstamp_mode", val, [params EXCEPT !.tstamp_mode = val])

\* params->sleep_min = val;
snd_pcm_sw_params_set_sleep_min(val) ==
    /\ Idle
    /\ params.filled
    /\ ContainerSet("set_sleep_min", val, [params EXCEPT !.sleep_min = val])

\* params->avail_min = val;
snd_pcm_sw_params_set_avail_min(val) ==
    /\ Idle
    /\ params.filled
    /\ ContainerSet("set_avail_min", val, [params EXCEPT !.avail_min = val])

\* params->start_threshold = val;
snd_pcm_sw_params_set_start_threshold(val) ==
    /\ Idle
    /\ params.filled
    /\ ContainerSet("set_start_threshold", val, [params EXCEPT !.start_threshold = val])

\* params->stop_threshold = val;
snd_pcm_sw_params_set_stop_threshold(val) ==
    /\ Idle
    /\ params.filled
    /\ ContainerSet("set_stop_threshold", val, [params EXCEPT !.stop_threshold = val])

\* the setters of the fields snd_pcm_sw_params caches
Setters ==
    \/ \E val \in 0..(SND_PCM_TSTAMP_LAST + 1) : snd_pcm_sw_params_set_tstamp_mode(val)
    \/ \E val \in 0..1 : snd_pcm_sw_params_set_sleep_min(val)
    \/ \E val \in 1..MaxAlign : snd_pcm_sw_params_set_avail_min(val)
    \/ \E val \in {1, MaxBuffer} : snd_pcm_sw_params_set_start_threshold(val)
    \/ \E val \in {1, MaxBuffer} : snd_pcm_sw_params_set_stop_threshold(val)

\* the legacy modes: SND_PCM_START_DATA, SND_PCM_START_EXPLICIT and
\* SND_PCM_XRUN_NONE, SND_PCM_XRUN_STOP
StartModes == {SND_PCM_START_DATA, SND_PCM_START_EXPLICIT}
XrunModes == {SND_PCM_XRUN_NONE, SND_PCM_XRUN_STOP}

\* case SND_PCM_START_DATA: params->start_threshold = 1;
\* case SND_PCM_START_EXPLICIT: params->start_threshold = pcm->boundary;
SetStartMode(p, val) ==
    [p EXCEPT !.start_threshold = IF val = SND_PCM_START_DATA THEN 1 ELSE boundary]

\* return params->start_threshold > 1024 * 1024 ? SND_PCM_START_EXPLICIT : SND_PCM_START_DATA;
GetStartMode(p) ==
    IF p.start_threshold > ModeLimit THEN SND_PCM_START_EXPLICIT ELSE SND_PCM_START_DATA

\* case SND_PCM_XRUN_STOP: params->stop_threshold = pcm->buffer_size;
\* case SND_PCM_XRUN_NONE: params->stop_threshold = pcm->boundary;
SetXrunMode(p, val) ==
    [p EXCEPT !.stop_threshold = IF val = SND_PCM_XRUN_STOP THEN buffer_size ELSE boundary]

\* return params->stop_threshold > 1024 * 1024 ? SND_PCM_XRUN_NONE : SND_PCM_XRUN_STOP;
GetXrunMode(p) ==
    IF p.stop_threshold > ModeLimit THEN SND_PCM_XRUN_NONE ELSE SND_PCM_XRUN_STOP

\* snd_pcm_sw_params_set_start_mode(pcm, params, val); default: assert(0);
snd_pcm_sw_params_set_start_mode(val) ==
    /\ Idle
    /\ params.filled
    /\ IF val \notin StartModes THEN Abort
       ELSE ContainerSet("set_start_mode", val, SetStartMode(params, val))

\* snd_pcm_sw_params_get_start_mode(params)
snd_pcm_sw_params_get_start_mode ==
    /\ Idle
    /\ params.filled
    /\ ret' = GetStartMode(params) /\ pc' = "returned"
    /\ EnterAccess("get_start_mode", 0)
    /\ UNCHANGED params
    /\ ContainerFrame

\* snd_pcm_sw_params_set_xrun_mode(pcm, params, val); default: assert(0);
snd_pcm_sw_params_set_xrun_mode(val) ==
    /\ Idle
    /\ params.filled
    /\ IF val \notin XrunModes THEN Abort
       ELSE ContainerSet("set_xrun_mode", val, SetXrunMode(params, val))

\* snd_pcm_sw_params_get_xrun_mode(params)
snd_pcm_sw_params_get_xrun_mode ==
    /\ Idle
    /\ params.filled
    /\ ret' = GetXrunMode(params) /\ pc' = "returned"
    /\ EnterAccess("get_xrun_mode", 0)
    /\ UNCHANGED params
    /\ ContainerFrame

\* the deprecated calls on the start mode and the xrun mode
Modes ==
    \/ \E val \in 0..(SND_PCM_START_EXPLICIT + 1) : snd_pcm_sw_params_set_start_mode(val)
    \/ snd_pcm_sw_params_get_start_mode
    \/ \E val \in 0..(SND_PCM_XRUN_STOP + 1) : snd_pcm_sw_params_set_xrun_mode(val)
    \/ snd_pcm_sw_params_get_xrun_mode

\* ------------------------------------------------------------------------
\* Bytes, frames and samples
\* ------------------------------------------------------------------------

\* return bytes * 8 / pcm->frame_bits;
BytesToFrames(bytes) == (bytes * 8) \div frame_bits

\* FramesToBytes counting the byte a frame ends in
FramesToBytes_RoundUp(fr) == (fr * frame_bits + 7) \div 8

\* return frames * pcm->frame_bits / 8;
FramesToBytes(fr) == (fr * frame_bits) \div 8

\* return bytes * 8 / pcm->sample_bits;
BytesToSamples(bytes) == (bytes * 8) \div sample_bits

\* return samples * pcm->sample_bits / 8;
SamplesToBytes(samples) == (samples * sample_bits) \div 8

\* a conversion: assert(pcm->setup), then the quantity in the other unit
Convert(o, arg, val) ==
    /\ Idle
    /\ IF ~setup THEN Abort
       ELSE /\ ret' = val /\ pc' = "returned"
            /\ EnterAccess(o, arg)
            /\ UNCHANGED <<cfgVars, swVars, memVars, auxVars, commitVars, noteVars,
                           devVars, startVars, mmapVars>>

snd_pcm_bytes_to_frames(bytes) == Convert("bytes_to_frames", bytes, BytesToFrames(bytes))

snd_pcm_frames_to_bytes(fr) == Convert("frames_to_bytes", fr, FramesToBytes(fr))

snd_pcm_bytes_to_samples(bytes) == Convert("bytes_to_samples", bytes, BytesToSamples(bytes))

snd_pcm_samples_to_bytes(samples) ==
    Convert("samples_to_bytes", samples, SamplesToBytes(samples))

\* the quantities converted: up to MaxSize frames of the widest frame
UnitCounts == 0..MaxSize
UnitBytes == 0..(MaxSize * MaxChannels * 8)

\* the conversions
Units ==
    \/ \E bytes \in UnitBytes : snd_pcm_bytes_to_frames(bytes)
    \/ \E fr \in UnitCounts : snd_pcm_frames_to_bytes(fr)
    \/ \E bytes \in UnitBytes : snd_pcm_bytes_to_samples(bytes)
    \/ \E samples \in UnitCounts : snd_pcm_samples_to_bytes(samples)

\* ------------------------------------------------------------------------
\* Asynchronous notification: snd_async_add_pcm_handler
\* ------------------------------------------------------------------------

\* the elements of a list
Elems(l) == {l[i] : i \in 1..Len(l)}

\* the list without the element x
Without(l, x) == SelectSeq(l, LAMBDA y : y # x)

\* the handlers snd_async_add_handler can still allocate
FreeHandlers == (1..MaxHandlers) \ Elems(async_handlers)

\* the signal snd_pcm_async raises by default
SIGIO == 29

\* the signal the library's handlers are registered for
snd_async_signo == SIGIO

\* the process ids the calling process may have
Pids == {1, SIGIO, SIGIO + 1}

\* snd_pcm_async(pcm, sig, pid) called in the process self: what ops->async
\* receives; if (sig == 0) sig = SIGIO; if (pid == 0) pid = getpid();
snd_pcm_async(self, sig, pid) ==
    [sig |-> IF sig = 0 THEN SIGIO ELSE sig,
     pid |-> IF pid = 0 THEN self ELSE pid,
     self |-> self]

\* AsyncEnables for every handler added
AsyncEnables_Always(was_empty) == TRUE

\* if (was_empty) err = snd_pcm_async(pcm, getpid(), snd_async_signo);
AsyncEnables(was_empty) == was_empty

\* what a call that is not a transfer leaves alone
CallFrame ==
    UNCHANGED <<cfgVars, swVars, memVars, devVars, startVars, mmapVars, commitVars, areaVars,
                closeVars, lstate, size, xfer, err, frames, cbret, req, e_state, e_appl, e_hw,
                ncb, moved, nwait, navail>>

\* snd_async_add_pcm_handler(&handler, pcm, callback, private_data)
snd_async_add_pcm_handler ==
    /\ Idle
    /\ pc' = "returned" /\ op' = "async_add"
    /\ \/ \* snd_async_add_handler fails: nothing is registered
          /\ faults
          /\ ret' = -EIO /\ a_id' = 0
          /\ a_was_empty' = FALSE /\ a_enabled' = FALSE /\ a_args' = NoAsync
          /\ UNCHANGED asyncVars
       \/ \E h \in FreeHandlers :
             LET was_empty == async_handlers = <<>>
                 added == Append(async_handlers, h)
             IN  /\ a_id' = h /\ a_was_empty' = was_empty
                 /\ a_enabled' = AsyncEnables(was_empty)
                 /\ IF AsyncEnables(was_empty)
                    THEN \E r \in OpReturns, self \in Pids :
                           /\ ret' = r
                           /\ a_args' = snd_pcm_async(self, self, snd_async_signo)
                           /\ async_mode' = (async_mode \/ r = 0)
                           /\ async_handlers' = IF r < 0 THEN Without(added, h)
                                                 ELSE added
                    ELSE /\ ret' = 0
                         /\ a_args' = NoAsync
                         /\ async_handlers' = added
                         /\ UNCHANGED async_mode
    /\ UNCHANGED <<linkVars, l_ioctl, l_args, l_before, calls, cl_setup>>
    /\ CallFrame

\* snd_async_del_handler(handler): the handler leaves the list; what becomes of
\* the notification mode with the last one is the implementation's choice
snd_async_del_handler(h) ==
    /\ Idle
    /\ h \in Elems(async_handlers)
    /\ pc' = "returned" /\ op' = "async_del" /\ ret' = 0
    /\ async_handlers' = Without(async_handlers, h)
    /\ async_mode' \in (IF Len(async_handlers) = 1 THEN {async_mode, FALSE}
                         ELSE {async_mode})
    /\ UNCHANGED <<linkVars, noteVars>>
    /\ CallFrame

\* ------------------------------------------------------------------------
\* Linking: snd_pcm_link, snd_pcm_unlink
\* ------------------------------------------------------------------------

\* the SNDRV_PCM_IOCTL_LINK of the driver: the result and the group it leaves
LinkIoctl(grp, a, b) ==
    {[ret |-> 0, grp |-> grp \cup {a, b}]}
        \cup (IF faults THEN {[ret |-> -EIO, grp |-> grp]} ELSE {})

\* the SNDRV_PCM_IOCTL_UNLINK of the driver; a failing descriptor is no device
UnlinkIoctl(grp, d) ==
    IF ~link_fd[d] THEN {[ret |-> -EBADF, grp |-> grp]}
    ELSE IF d \notin grp THEN {[ret |-> -EALREADY, grp |-> grp]}
    ELSE {[ret |-> 0, grp |-> IF Cardinality(grp) > 2 THEN grp \ {d} ELSE {}]}
             \cup (IF faults THEN {[ret |-> -EIO, grp |-> grp]} ELSE {})

\* LinkSupported with the first descriptor alone
LinkSupported_First(a, b) == link_fd[a]

\* if (fd1 < 0 || fd2 < 0) return -ENOSYS;
LinkSupported(a, b) == link_fd[a] /\ link_fd[b]

\* snd_pcm_link(pcm1, pcm2)
snd_pcm_link(a, b) ==
    /\ Idle
    /\ pc' = "returned" /\ op' = "link"
    /\ l_args' = <<a, b>> /\ l_before' = l_group
    /\ IF ~LinkSupported(a, b)
       THEN /\ ret' = -ENOSYS /\ l_ioctl' = FALSE
            /\ UNCHANGED l_group
       ELSE /\ l_ioctl' = TRUE
            /\ \E o \in LinkIoctl(l_group, a, b) : ret' = o.ret /\ l_group' = o.grp
    /\ UNCHANGED <<link_fd, asyncVars, a_id, a_was_empty, a_enabled, a_args, calls, cl_setup>>
    /\ CallFrame

\* snd_pcm_unlink(pcm)
snd_pcm_unlink(d) ==
    /\ Idle
    /\ pc' = "returned" /\ op' = "unlink"
    /\ l_args' = <<d>> /\ l_before' = l_group
    /\ l_ioctl' = TRUE
    /\ \E o \in UnlinkIoctl(l_group, d) : ret' = o.ret /\ l_group' = o.grp
    /\ UNCHANGED <<link_fd, asyncVars, a_id, a_was_empty, a_enabled, a_args, calls, cl_setup>>
    /\ CallFrame

\* ------------------------------------------------------------------------
\* snd_pcm_close
\* ------------------------------------------------------------------------

\* CloseDrops for the blocking handles alone, whatever the stream
CloseDrops_ModeOnly == nonblock

\* if (pcm->mode & SND_PCM_NONBLOCK || pcm->stream == SND_PCM_STREAM_CAPTURE)
\*     snd_pcm_drop(pcm); else snd_pcm_drain(pcm);
CloseDrops == nonblock \/ stream = "CAPTURE"

\* assert(snd_pcm_state(pcm) <= SND_PCM_STATE_PREPARED) of snd_pcm_hw_free
HwFreeLegal(st) == st \in {"OPEN", "SETUP", "PREPARED"}

\* what the loop over pcm->async_handlers may come to when the list is not
\* empty: it hands snd_async_del_handler a pointer computed from the list head
\* (&pcm->async_handlers.next), not from its first element
CloseHandlerOutcomes == {"crash", "hang", "deleted"}

\* the rest of snd_pcm_close once the configuration is gone: the handlers are
\* deleted, then pcm->ops->close; st is the device state, cs the operations so far
CloseRest(st, cs) ==
    /\ state' = st /\ setup' = FALSE
    /\ \E out \in (IF async_handlers = <<>> THEN {"deleted"} ELSE CloseHandlerOutcomes) :
          IF out # "deleted"
          THEN /\ pc' = (IF out = "crash" THEN "aborted" ELSE "hung")
               /\ calls' = cs
               /\ UNCHANGED <<ret, asyncVars>>
          ELSE /\ async_handlers' = <<>>
               /\ async_mode' = (async_mode /\ async_handlers = <<>>)
               /\ calls' = Append(cs, "close")
               /\ \E rc \in OpReturns :
                      /\ ret' = rc
                      /\ pc' = (IF rc < 0 THEN "returned" ELSE "closed")

\* pcm->setup after err = pcm->ops->hw_free(pcm->op_arg); pcm->setup = 0;
HwFreeSetup(e) == FALSE

\* snd_pcm_hw_free(pcm) in the state st, its assertions passed: a mapped buffer
\* is unmapped first and the error of snd_pcm_munmap is returned at once; then
\* pcm->ops->hw_free, which leaves the device in OPEN when it succeeds
HwFree(st) ==
    (IF mmap_channels /\ faults
     THEN {[ret |-> -EIO, setup |-> setup, state |-> st, mmap_channels |-> TRUE]}
     ELSE {})
        \cup {[ret |-> e, setup |-> HwFreeSetup(e),
               state |-> IF e < 0 THEN st ELSE "OPEN",
               mmap_channels |-> FALSE] : e \in OpReturns}

\* snd_pcm_hw_free(pcm) called by the application
snd_pcm_hw_free ==
    /\ Idle
    /\ IF ~setup \/ ~HwFreeLegal(state) THEN Abort
       ELSE /\ \E o \in HwFree(state) :
                  /\ ret' = o.ret /\ setup' = o.setup /\ state' = o.state
                  /\ mmap_channels' = o.mmap_channels
            /\ pc' = "returned"
            /\ EnterAccess("hw_free", 0)
            /\ UNCHANGED <<hw_ptr, appl_ptr, cl_flushes, cfgVars, swVars, memVars, areaVars,
                           asyncVars, linkVars, commitVars, noteVars, startVars, mmapVars>>

\* snd_pcm_hw_free inside snd_pcm_close, then the rest; st is the device state
\* the implicit drop or drain has left
CloseFree(st, cs) ==
    IF ~HwFreeLegal(st)
    THEN /\ pc' = "aborted" /\ state' = st /\ calls' = cs
         /\ UNCHANGED <<ret, setup, asyncVars, mmap_channels>>
    ELSE \E o \in HwFree(st) :
            /\ mmap_channels' = o.mmap_channels
            /\ IF o.ret < 0
               THEN /\ pc' = "returned" /\ ret' = o.ret
                    /\ state' = o.state /\ setup' = o.setup
                    /\ calls' = Append(cs, "hw_free")
                    /\ UNCHANGED asyncVars
               ELSE CloseRest(o.state, Append(cs, "hw_free"))

\* what a step of snd_pcm_close leaves alone
CloseFrame ==
    UNCHANGED <<cfgVars, swVars, memVars, areaVars, linkVars, commitVars, mmapVars, lstate, size, xfer,
                err, frames, cbret, req, ncb, moved, nwait, navail,
                a_id, a_was_empty, a_enabled, a_args, l_ioctl, l_args, l_before>>

\* snd_pcm_close(pcm), up to its return or to the wait of a blocking drain
snd_pcm_close ==
    /\ Idle
    /\ op' = "close" /\ cl_setup' = setup
    /\ e_state' = state /\ e_appl' = appl_ptr /\ e_hw' = hw_ptr
    /\ IF ~setup
       THEN /\ CloseRest(state, <<>>)
            /\ UNCHANGED <<hw_ptr, appl_ptr, startVars, closeVars>>
       ELSE /\ cl_flushes' = Cap(cl_flushes + 1, MaxCount)
            /\ IF CloseDrops
               THEN /\ appl_ptr' = hw_ptr /\ nstart' = 0 /\ belowStart' = FALSE
                    /\ UNCHANGED hw_ptr
                    /\ CloseFree("PREPARED", <<"drop">>)
               ELSE IF state \in {"PREPARED", "RUNNING"}
               THEN /\ state' = "DRAINING" /\ pc' = "close_drain" /\ calls' = <<"drain">>
                    /\ UNCHANGED <<hw_ptr, appl_ptr, startVars, ret, setup, asyncVars,
                                   mmap_channels>>
               ELSE /\ CloseFree(state, <<"drain">>)
                    /\ UNCHANGED <<hw_ptr, appl_ptr, startVars>>
    /\ CloseFrame

\* the blocking drain of snd_pcm_close returns: the stream has left DRAINING, or
\* a signal has interrupted the wait
snd_pcm_close_drained ==
    /\ pc = "close_drain"
    /\ state # "DRAINING" \/ faults
    /\ CloseFree(state, calls)
    /\ UNCHANGED <<hw_ptr, appl_ptr, startVars, op, cl_setup, cl_flushes, e_state, e_appl, e_hw>>
    /\ CloseFrame

\* ------------------------------------------------------------------------
\* The format kernel: snd_pcm_area_silence, snd_pcm_area_copy
\* ------------------------------------------------------------------------
\* Memory is a list of 4-bit values, position p being its element p + 1; the
\* byte at address b is made of position 2b (its high half, mask 0xf0) and
\* position 2b+1 (its low half, mask 0x0f). A channel area is a record [addr, first, step]: a byte
\* address (NULL for none), the bit offset of the first sample, the bit stride.

\* the 4-bit positions of the memory set aside for one group of areas
RegionNibbles == 16 * (MaxChannels + 1) * (MaxSamples + 2)

\* the regions: destination, source, and where the copy back goes
Regions == 0..2

\* the byte address a region starts at; address 0 is NULL
RegionBase(r) == 8 + r * (RegionNibbles \div 2)

MemNibbles == 16 + 3 * RegionNibbles

\* bitwise or of two bytes or half bytes
RECURSIVE BitOr(_, _)
BitOr(a, b) ==
    IF a = 0 THEN b
    ELSE IF b = 0 THEN a
    ELSE (IF a % 2 = 1 \/ b % 2 = 1 THEN 1 ELSE 0) + 2 * BitOr(a \div 2, b \div 2)

\* the physical widths the kernel handles
Widths == {4, 8, 16, 32, 64}

\* the silence of one sample as it lies in memory, 4 bits at a time: all zero
\* for the signed formats, the most significant byte 0x80 for the unsigned ones
SilenceOf(w, unsigned) ==
    [k \in 1..(w \div 4) |-> IF unsigned /\ k = (w \div 4) - 1 THEN 8 ELSE 0]

\* a format: its physical width and its silence
Formats ==
    {[width |-> w, sil |-> SilenceOf(w, u)] : w \in Widths, u \in BOOLEAN}

snd_pcm_format_physical_width(fmt) == fmt.width

\* the silence repeated over 64 bits, as it lies in memory
snd_pcm_format_silence_64(fmt) ==
    [k \in 1..16 |-> fmt.sil[((k - 1) % Len(fmt.sil)) + 1]]

\* the byte address of the sample at a frame offset: the bits below a byte are
\* dropped
snd_pcm_channel_area_addr(area, offset) ==
    area.addr + ((area.first + area.step * offset) \div 8)

\* the memory with the values vs from position p on
Splice(m, p, vs) == SubSeq(m, 1, p) \o vs \o SubSeq(m, p + Len(vs) + 1, Len(m))

\* the fast path of snd_pcm_area_silence: dwords 64-bit words of silence at dst
SilenceWords(m, dst, dwords, sil64) ==
    Splice(m, 2 * dst, [k \in 1..(16 * dwords) |-> sil64[((k - 1) % 16) + 1]])

\* case 4 of snd_pcm_area_silence: n samples from dst, bit dstbit
RECURSIVE Silence4(_, _, _, _, _, _, _)
Silence4(m, dst, dstbit, n, dst_step, dstbit_step, sil64) ==
    IF n = 0 THEN m
    ELSE LET s0 == sil64[1]
             s1 == sil64[2]
             m1 == IF dstbit # 0
                   THEN [m EXCEPT ![2 * dst + 2] = BitOr(0, s1)]
                   ELSE [m EXCEPT ![2 * dst + 1] = BitOr(0, s0)]
             bit == dstbit + dstbit_step
         IN  IF bit = 8
             THEN Silence4(m1, dst + dst_step + 1, 0, n - 1, dst_step, dstbit_step, sil64)
             ELSE Silence4(m1, dst + dst_step, bit, n - 1, dst_step, dstbit_step, sil64)

\* cases 8, 16, 32, 64 of snd_pcm_area_silence: n samples of w bits from dst
RECURSIVE SilenceN(_, _, _, _, _, _)
SilenceN(m, dst, n, dst_step, w, sil64) ==
    IF n = 0 THEN m
    ELSE SilenceN(Splice(m, 2 * dst, SubSeq(sil64, 1, w \div 4)), dst + dst_step,
                  n - 1, dst_step, w, sil64)

\* snd_pcm_area_silence(dst_area, dst_offset, samples, format): the memory it leaves
snd_pcm_area_silence(m, dst_area, dst_offset, samples, fmt) ==
    IF dst_area.addr = NULL THEN m
    ELSE LET dst == snd_pcm_channel_area_addr(dst_area, dst_offset)
             width == snd_pcm_format_physical_width(fmt)
             silence == snd_pcm_format_silence_64(fmt)
             fast == dst_area.step = width
             dwords == IF fast THEN (samples * width) \div 64 ELSE 0
             rest == samples - ((dwords * 64) \div width)
             m1 == SilenceWords(m, dst, dwords, silence)
             dst1 == dst + 8 * dwords
             dst_step == dst_area.step \div 8
         IN  IF fast /\ rest = 0 THEN m1
             ELSE IF width = 4
                  THEN Silence4(m1, dst1, dst_area.first % 8, rest, dst_step,
                                dst_area.step % 8, silence)
                  ELSE SilenceN(m1, dst1, rest, dst_step, width, silence)

\* memcpy(dst, src, bytes), the two not overlapping
Memcpy(m, dst, src, bytes) ==
    Splice(m, 2 * dst, SubSeq(m, 2 * src + 1, 2 * src + 2 * bytes))

\* the byte at an address, and the memory with that byte replaced
ByteAt(m, b) == 16 * m[2 * b + 1] + m[2 * b + 2]

WithByte(m, b, v) == [m EXCEPT ![2 * b + 1] = v \div 16, ![2 * b + 2] = v % 16]

\* case 4 of snd_pcm_area_copy
RECURSIVE Copy4(_, _, _, _, _, _, _, _, _, _)
Copy4(m, dst, dstbit, src, srcbit, n, dst_step, dstbit_step, src_step, srcbit_step) ==
    IF n = 0 THEN m
    ELSE LET srcval == IF srcbit # 0 THEN ByteAt(m, src) % 16
                       ELSE 16 * (ByteAt(m, src) \div 16)
             kept == IF dstbit # 0 THEN 16 * (ByteAt(m, dst) \div 16)
                     ELSE ByteAt(m, dst) % 16
             m1 == WithByte(m, dst, BitOr(kept, srcval))
             sbit == srcbit + srcbit_step
             dbit == dstbit + dstbit_step
             src1 == IF sbit = 8 THEN src + src_step + 1 ELSE src + src_step
             dst1 == IF dbit = 8 THEN dst + dst_step + 1 ELSE dst + dst_step
         IN  Copy4(m1, dst1, IF dbit = 8 THEN 0 ELSE dbit,
                   src1, IF sbit = 8 THEN 0 ELSE sbit,
                   n - 1, dst_step, dstbit_step, src_step, srcbit_step)

\* cases 8, 16, 32, 64 of snd_pcm_area_copy
RECURSIVE CopyN(_, _, _, _, _, _, _)
CopyN(m, dst, src, n, dst_step, src_step, w) ==
    IF n = 0 THEN m
    ELSE CopyN(Memcpy(m, dst, src, w \div 8), dst + dst_step, src + src_step,
               n - 1, dst_step, src_step, w)

\* CopyNullSrc leaving the destination as it is
CopyNullSrc_Nothing(m, dst_area, dst_offset, samples, fmt) == m

\* if (!src_area->addr) return snd_pcm_area_silence(dst_area, dst_offset, samples, format);
CopyNullSrc(m, dst_area, dst_offset, samples, fmt) ==
    snd_pcm_area_silence(m, dst_area, dst_offset, samples, fmt)

\* snd_pcm_area_copy(dst_area, dst_offset, src_area, src_offset, samples, format)
snd_pcm_area_copy(m, dst_area, dst_offset, src_area, src_offset, samples, fmt) ==
    IF src_area.addr = NULL THEN CopyNullSrc(m, dst_area, dst_offset, samples, fmt)
    ELSE IF dst_area.addr = NULL THEN m
    ELSE LET src == snd_pcm_channel_area_addr(src_area, src_offset)
             dst == snd_pcm_channel_area_addr(dst_area, dst_offset)
             width == snd_pcm_format_physical_width(fmt)
             fast == src_area.step = width /\ dst_area.step = width
             bytes == IF fast THEN (samples * width) \div 8 ELSE 0
             rest == samples - ((bytes * 8) \div width)
             m1 == Memcpy(m, dst, src, bytes)
         IN  IF fast /\ rest = 0 THEN m1
             ELSE IF width = 4
                  THEN Copy4(m1, dst, dst_area.first % 8, src, src_area.first % 8, rest,
                             dst_area.step \div 8, dst_area.step % 8,
                             src_area.step \div 8, src_area.step % 8)
                  ELSE CopyN(m1, dst, src, rest, dst_area.step \div 8,
                             src_area.step \div 8, width)

\* ------------------------------------------------------------------------
\* The format kernel over several channels: snd_pcm_areas_silence,
\* snd_pcm_areas_copy
\* ------------------------------------------------------------------------

\* the inner loop of snd_pcm_areas_silence: the channels in the run that starts
\* at areas[i], left channels remaining from there
RECURSIVE SilenceRun(_, _, _, _)
SilenceRun(areas, i, left, width) ==
    IF left = 1
       \/ areas[i + 1].addr # areas[i].addr
       \/ areas[i + 1].step # areas[i].step
       \/ areas[i + 1].first # areas[i].first + width
    THEN 1
    ELSE 1 + SilenceRun(areas, i + 1, left - 1, width)

\* if (chns > 1 && chns * width == step)
Collapses(chns, width, step) == chns > 1 /\ chns * width = step

\* the area of a collapsed run
Collapsed(begin, width) == [addr |-> begin.addr, first |-> begin.first, step |-> width]

\* snd_pcm_areas_silence from channel i on, channels remaining
RECURSIVE AreasSilenceFrom(_, _, _, _, _, _, _)
AreasSilenceFrom(m, areas, i, channels, dst_offset, nframes, fmt) ==
    IF channels = 0 THEN m
    ELSE LET width == snd_pcm_format_physical_width(fmt)
             begin == areas[i]
             chns == SilenceRun(areas, i, channels, width)
         IN  IF Collapses(chns, width, begin.step)
             THEN AreasSilenceFrom(
                      snd_pcm_area_silence(m, Collapsed(begin, width), dst_offset * chns,
                                           nframes * chns, fmt),
                      areas, i + chns, channels - chns, dst_offset, nframes, fmt)
             ELSE AreasSilenceFrom(
                      snd_pcm_area_silence(m, begin, dst_offset, nframes, fmt),
                      areas, i + 1, channels - 1, dst_offset, nframes, fmt)

\* snd_pcm_areas_silence(dst_areas, dst_offset, channels, frames, format)
snd_pcm_areas_silence(m, dst_areas, dst_offset, nframes, fmt) ==
    AreasSilenceFrom(m, dst_areas, 1, Len(dst_areas), dst_offset, nframes, fmt)

\* the inner loop of snd_pcm_areas_copy, entered with dst_areas->step == step
RECURSIVE CopyRun(_, _, _, _, _, _)
CopyRun(dsts, srcs, i, left, step, width) ==
    IF left = 1
       \/ srcs[i + 1].step # step
       \/ srcs[i + 1].addr # srcs[i].addr
       \/ dsts[i + 1].addr # dsts[i].addr
       \/ srcs[i + 1].first # srcs[i].first + width
       \/ dsts[i + 1].first # dsts[i].first + width
    THEN 1
    ELSE IF dsts[i + 1].step # step THEN 1
    ELSE 1 + CopyRun(dsts, srcs, i + 1, left - 1, step, width)

\* snd_pcm_areas_copy from channel i on, channels remaining
RECURSIVE AreasCopyFrom(_, _, _, _, _, _, _, _, _)
AreasCopyFrom(m, dsts, srcs, i, channels, dst_offset, src_offset, nframes, fmt) ==
    IF channels = 0 THEN m
    ELSE LET width == snd_pcm_format_physical_width(fmt)
             step == srcs[i].step
             chns == IF dsts[i].step = step
                     THEN CopyRun(dsts, srcs, i, channels, step, width)
                     ELSE 0
         IN  IF Collapses(chns, width, step)
             THEN AreasCopyFrom(
                      snd_pcm_area_copy(m, Collapsed(dsts[i], width), dst_offset * chns,
                                        Collapsed(srcs[i], width), src_offset * chns,
                                        nframes * chns, fmt),
                      dsts, srcs, i + chns, channels - chns, dst_offset, src_offset,
                      nframes, fmt)
             ELSE AreasCopyFrom(
                      snd_pcm_area_copy(m, dsts[i], dst_offset, srcs[i], src_offset,
                                        nframes, fmt),
                      dsts, srcs, i + 1, channels - 1, dst_offset, src_offset,
                      nframes, fmt)

\* snd_pcm_areas_copy(dst_areas, dst_offset, src_areas, src_offset, channels,
\* frames, format)
snd_pcm_areas_copy(m, dst_areas, dst_offset, src_areas, src_offset, nframes, fmt) ==
    AreasCopyFrom(m, dst_areas, src_areas, 1, Len(dst_areas), dst_offset, src_offset,
                  nframes, fmt)

\* ------------------------------------------------------------------------
\* The kernel applied to a memory that holds a known pattern
\* ------------------------------------------------------------------------

\* the pattern: no position holds 0, neighbours differ
InitMem == [j \in 1..MemNibbles |-> ((j * 7 + 3) % 15) + 1]

\* the sample counts tried: the short ones, and for the narrow widths one long
\* enough for the 64-bit words of the fast path
Counts(w) == (1..MaxSamples) \cup (IF w <= 8 THEN {LongRun} ELSE {})

\* the frame offsets tried
Offsets == {0, 1}

\* the single areas tried in a region: none, or the region with a zero or
\* non-zero bit offset and a unit or non-unit stride
SingleAreas(r, w) ==
    {[addr |-> a, first |-> f, step |-> st] :
        a \in {NULL, RegionBase(r)}, f \in {0, w}, st \in {w, 2 * w}}

\* the bytes between the channels of a planar layout
ChanBytes == 8 * (MaxSamples + 2)

\* the channel lists tried in a region: interleaved without padding (at bit 0
\* or one sample in), interleaved with one sample of padding, and planar
AreaLists(r, w) ==
    UNION {
        {[c \in 1..n |-> [addr |-> RegionBase(r), first |-> b + (c - 1) * w, step |-> n * w]] :
            b \in {0, w}}
        \cup {[c \in 1..n |-> [addr |-> RegionBase(r), first |-> (c - 1) * w,
                                 step |-> (n + 1) * w]]}
        \cup {[c \in 1..n |-> [addr |-> RegionBase(r) + (c - 1) * ChanBytes, first |-> 0,
                                 step |-> w]]}
        : n \in 1..MaxChannels}

\* the arguments of a kernel call
Args(fmt, n, dsts, doff, srcs, soff) ==
    [fmt |-> fmt, n |-> n, dsts |-> dsts, doff |-> doff, srcs |-> srcs, soff |-> soff]

\* what a kernel call leaves alone
KernelFrame ==
    UNCHANGED <<cfgVars, swVars, devVars, startVars, mmapVars, auxVars, commitVars, noteVars,
                lstate, size, xfer, err, frames, cbret, req, e_state, e_appl, e_hw,
                ncb, moved, nwait, navail>>

\* a call of snd_pcm_area_silence on the pattern
area_silence ==
    /\ k_op = "none"
    /\ \E fmt \in Formats :
       \E n \in Counts(fmt.width), d \in SingleAreas(0, fmt.width), doff \in Offsets :
          /\ mem' = snd_pcm_area_silence(mem, d, doff, n, fmt)
          /\ k_args' = Args(fmt, n, <<d>>, doff, <<>>, 0)
    /\ k_op' = "silence" /\ op' = "area_silence" /\ pc' = "returned" /\ ret' = 0
    /\ KernelFrame

\* a call of snd_pcm_area_copy, on the pattern or into the area just silenced
area_copy ==
    /\ k_op \in {"none", "silence"}
    /\ \E fmt \in Formats :
       \E n \in Counts(fmt.width), d \in SingleAreas(0, fmt.width), doff \in Offsets,
          sa \in SingleAreas(1, fmt.width), soff \in Offsets :
          /\ k_op = "silence"
                => (k_args.fmt = fmt /\ k_args.n = n /\ k_args.dsts = <<d>>
                    /\ k_args.doff = doff /\ d.addr # NULL /\ sa.addr # NULL)
          /\ mem' = snd_pcm_area_copy(mem, d, doff, sa, soff, n, fmt)
          /\ k_args' = Args(fmt, n, <<d>>, doff, <<sa>>, soff)
    /\ k_op' = (IF k_op = "none" THEN "copy" ELSE "silence_copy")
    /\ op' = "area_copy" /\ pc' = "returned" /\ ret' = 0
    /\ KernelFrame

\* the area of the last region with the addressing of a
Readback(a) == [a EXCEPT !.addr = RegionBase(2)]

\* the samples just copied are copied back, through the addressing of the
\* source, into a region of their own
area_copy_back ==
    /\ k_op = "silence_copy"
    /\ mem' = snd_pcm_area_copy(mem, Readback(k_args.srcs[1]), k_args.soff,
                                k_args.dsts[1], k_args.doff, k_args.n, k_args.fmt)
    /\ k_op' = "round_trip" /\ op' = "area_copy" /\ pc' = "returned" /\ ret' = 0
    /\ UNCHANGED k_args
    /\ KernelFrame

\* a call of snd_pcm_areas_silence on the pattern
areas_silence ==
    /\ k_op = "none"
    /\ \E fmt \in Formats :
       \E n \in 1..MaxSamples, ds \in AreaLists(0, fmt.width), doff \in Offsets :
          /\ mem' = snd_pcm_areas_silence(mem, ds, doff, n, fmt)
          /\ k_args' = Args(fmt, n, ds, doff, <<>>, 0)
    /\ k_op' = "areas_silence" /\ op' = "areas_silence" /\ pc' = "returned" /\ ret' = 0
    /\ KernelFrame

\* a call of snd_pcm_areas_copy on the pattern
areas_copy ==
    /\ k_op = "none"
    /\ \E fmt \in Formats :
       \E n \in 1..MaxSamples, ds \in AreaLists(0, fmt.width),
          ss \in AreaLists(1, fmt.width), doff \in Offsets, soff \in Offsets :
          /\ Len(ds) = Len(ss)
          /\ mem' = snd_pcm_areas_copy(mem, ds, doff, ss, soff, n, fmt)
          /\ k_args' = Args(fmt, n, ds, doff, ss, soff)
    /\ k_op' = "areas_copy" /\ op' = "areas_copy" /\ pc' = "returned" /\ ret' = 0
    /\ KernelFrame

\* ------------------------------------------------------------------------
\* Specifications
\* ------------------------------------------------------------------------

Control ==
    \/ \E bs \in hw_buffers : snd_pcm_hw_params(bs)
    \/ snd_pcm_prepare
    \/ snd_pcm_start
    \/ snd_pcm_drop
    \/ snd_pcm_drain
    \/ \E enable \in BOOLEAN : snd_pcm_pause(enable)

Hardware ==
    \/ \E k \in hw_steps : hw_advance(k)
    \/ hw_xrun
    \/ hw_drained

Transfer ==
    \/ \E sz \in req_sizes : snd_pcm_writei(sz)
    \/ \E sz \in req_sizes : snd_pcm_readi(sz)
    \/ write_areas_again
    \/ read_areas_again
    \/ snd_pcm_wait_ready
    \/ snd_pcm_wait_signal
    \/ app_continue

\* the read/write transfer engine against the driver and the hardware
Next == Control \/ Hardware \/ Transfer

Spec == Init /\ [][Next]_vars

\* the memory-mapped protocol against the driver and the hardware
NextMmap ==
    \/ Control
    \/ Hardware
    \/ \E w \in req_sizes : snd_pcm_mmap_begin(w)
    \/ \E o \in 0..(MaxBuffer - 1), f \in req_sizes : snd_pcm_mmap_commit(o, f)
    \/ app_continue

\* a handle as snd_pcm_new leaves it; the transfer parameters play no part in
\* the memory-mapped protocol, a plugin may have set the stopped areas
InitMmap ==
    /\ stream \in {"PLAYBACK", "CAPTURE"}
    /\ nonblock = FALSE
    /\ buffer_size = MaxBuffer
    /\ boundary = 2 * MaxBuffer
    /\ xfer_align = 1
    /\ start_threshold = 1
    /\ req_sizes = 0..MaxSize
    /\ hw_steps = 1..MaxBuffer
    /\ hw_mmap = FALSE
    /\ sample_bits = 16 /\ frame_bits = 16
    /\ faults = TRUE
    /\ hw_buffers = {buffer_size}
    /\ setup = FALSE /\ state = "OPEN" /\ hw_ptr = 0 /\ appl_ptr = 0
    /\ stopped_areas \in BOOLEAN
    /\ link_fd = [d \in Devices |-> FALSE]
    /\ InitCall

SpecMmap == InitMmap /\ [][NextMmap]_vars

\* the position calls next to the memory-mapped protocol
NextPosition == NextMmap \/ Position

SpecPosition == InitMmap /\ [][NextPosition]_vars

\* a blocking handle as snd_pcm_new leaves it
InitLive == Init /\ nonblock = FALSE /\ start_threshold = 1

\* the thread of the call runs, poll() returns when frames are available, and
\* the hardware keeps moving its pointer while it has frames or room
Fairness ==
    /\ WF_vars(write_areas_again)
    /\ WF_vars(read_areas_again)
    /\ WF_vars(snd_pcm_wait_ready)
    /\ WF_vars(\E k \in hw_steps : hw_advance(k))

\* the transfer engine of a blocking handle, scheduled fairly
SpecLive == InitLive /\ [][Next]_vars /\ Fairness

\* a handle as snd_pcm_new leaves it, for a device that accepts two buffer sizes
InitConfig ==
    /\ stream \in {"PLAYBACK", "CAPTURE"}
    /\ nonblock = FALSE
    /\ buffer_size = MaxBuffer
    /\ boundary = 2 * MaxBuffer
    /\ xfer_align = 1
    /\ start_threshold = 1
    /\ req_sizes = 0..MaxSize
    /\ hw_steps = 1..MaxBuffer
    /\ hw_mmap = FALSE
    /\ sample_bits = 16 /\ frame_bits = 16
    /\ faults = TRUE
    /\ hw_buffers = {1, MaxBuffer}
    /\ setup = FALSE /\ state = "OPEN" /\ hw_ptr = 0 /\ appl_ptr = 0
    /\ stopped_areas = FALSE
    /\ link_fd = [d \in Devices |-> FALSE]
    /\ InitCall

\* the hardware and the software configuration against the driver
NextConfig == Control \/ SwParams \/ app_continue

SpecConfig == InitConfig /\ [][NextConfig]_vars

\* installing a configuration, filling a container, its setters, installing it
NextParams ==
    \/ \E bs \in hw_buffers : snd_pcm_hw_params(bs)
    \/ snd_pcm_sw_params_current
    \/ Setters
    \/ snd_pcm_sw_params
    \/ app_continue

SpecParams == InitConfig /\ [][NextParams]_vars

\* a handle as snd_pcm_new leaves it, for a device that accepts a small buffer
\* and one of more than 1024 * 1024 frames; the boundary is a multiple of both
InitModes ==
    /\ stream \in {"PLAYBACK", "CAPTURE"}
    /\ nonblock = FALSE
    /\ buffer_size = MaxBuffer
    /\ boundary = 2 * MaxBuffer * (ModeLimit + 1)
    /\ xfer_align = 1
    /\ start_threshold = 1
    /\ req_sizes = 0..MaxSize
    /\ hw_steps = 1..MaxBuffer
    /\ hw_mmap = FALSE
    /\ sample_bits = 16 /\ frame_bits = 16
    /\ faults = TRUE
    /\ hw_buffers = {MaxBuffer, ModeLimit + 1}
    /\ setup = FALSE /\ state = "OPEN" /\ hw_ptr = 0 /\ appl_ptr = 0
    /\ stopped_areas = FALSE
    /\ link_fd = [d \in Devices |-> FALSE]
    /\ InitCall

\* installing a configuration, filling a container, the legacy modes
NextModes ==
    \/ \E bs \in hw_buffers : snd_pcm_hw_params(bs)
    \/ snd_pcm_sw_params_current
    \/ Modes
    \/ snd_pcm_sw_params
    \/ app_continue

SpecModes == InitModes /\ [][NextModes]_vars

\* a handle as snd_pcm_new leaves it, for a device with one sample format of 4
\* to 64 bits and 1 to MaxChannels channels
InitUnits ==
    /\ stream \in {"PLAYBACK", "CAPTURE"}
    /\ nonblock = FALSE
    /\ buffer_size = MaxBuffer
    /\ boundary = 2 * MaxBuffer
    /\ xfer_align = 1
    /\ start_threshold = 1
    /\ req_sizes = 0..MaxSize
    /\ hw_steps = 1..MaxBuffer
    /\ hw_mmap = FALSE
    /\ sample_bits \in Widths
    /\ \E channels \in 1..MaxChannels : frame_bits = sample_bits * channels
    /\ faults = TRUE
    /\ hw_buffers = {buffer_size}
    /\ setup = FALSE /\ state = "OPEN" /\ hw_ptr = 0 /\ appl_ptr = 0
    /\ stopped_areas = FALSE
    /\ link_fd = [d \in Devices |-> FALSE]
    /\ InitCall

\* installing a configuration and converting quantities
NextUnits ==
    \/ \E bs \in hw_buffers : snd_pcm_hw_params(bs)
    \/ Units
    \/ app_continue

SpecUnits == InitUnits /\ [][NextUnits]_vars

\* the handle's other calls: subscriptions, linking and close, against the
\* driver and the hardware; frames are queued through snd_pcm_mmap_commit
NextHandle ==
    \/ Control
    \/ Hardware
    \/ \E f \in req_sizes : snd_pcm_mmap_commit(m_offset, f)
    \/ snd_async_add_pcm_handler
    \/ \E h \in 1..MaxHandlers : snd_async_del_handler(h)
    \/ \E a \in Devices, b \in Devices : snd_pcm_link(a, b)
    \/ \E d \in Devices : snd_pcm_unlink(d)
    \/ snd_pcm_hw_free
    \/ snd_pcm_close
    \/ snd_pcm_close_drained
    \/ app_continue

\* a handle as snd_pcm_new leaves it, on a device with or without the link
\* capability, as its peer
InitHandle ==
    /\ stream \in {"PLAYBACK", "CAPTURE"}
    /\ nonblock \in BOOLEAN
    /\ buffer_size = MaxBuffer
    /\ boundary = 2 * MaxBuffer
    /\ xfer_align = 1
    /\ start_threshold = 1
    /\ req_sizes = 0..MaxSize
    /\ hw_steps = 1..MaxBuffer
    /\ hw_mmap \in BOOLEAN
    /\ sample_bits = 16 /\ frame_bits = 16
    /\ faults = TRUE
    /\ hw_buffers = {buffer_size}
    /\ setup = FALSE /\ state = "OPEN" /\ hw_ptr = 0 /\ appl_ptr = 0
    /\ stopped_areas = FALSE
    /\ link_fd \in [Devices -> BOOLEAN]
    /\ InitCall

SpecHandle == InitHandle /\ [][NextHandle]_vars

\* the format kernel applied to the pattern
NextArea ==
    \/ area_silence
    \/ area_copy
    \/ area_copy_back
    \/ areas_silence
    \/ areas_copy

InitArea ==
    /\ stream = "PLAYBACK"
    /\ nonblock = FALSE
    /\ buffer_size = MaxBuffer
    /\ boundary = 2 * MaxBuffer
    /\ xfer_align = 1
    /\ start_threshold = 1
    /\ req_sizes = 0..MaxSize
    /\ hw_steps = 1..MaxBuffer
    /\ hw_mmap = FALSE
    /\ sample_bits = 16 /\ frame_bits = 16
    /\ faults = FALSE
    /\ hw_buffers = {buffer_size}
    /\ setup = FALSE /\ state = "OPEN" /\ hw_ptr = 0 /\ appl_ptr = 0
    /\ stopped_areas = FALSE
    /\ link_fd = [d \in Devices |-> FALSE]
    /\ InitIdle
    /\ mem = InitMem /\ k_op = "none" /\ k_args = <<>>

SpecArea == InitArea /\ [][NextArea]_vars

\* the end-to-end playback scenario: buffer_size=4096, period_size=1024,
\* xfer_align=1, start_threshold=1024, empty ring buffer, PREPARED, writes of 1024
InitScenario ==
    /\ stream = "PLAYBACK"
    /\ nonblock \in BOOLEAN
    /\ buffer_size = ScnBuffer
    /\ boundary = ScnBoundary
    /\ xfer_align = 1
    /\ start_threshold = ScnPeriod
    /\ req_sizes = {ScnPeriod}
    /\ hw_steps = {ScnPeriod}
    /\ hw_mmap = FALSE
    /\ sample_bits = 16 /\ frame_bits = 16
    /\ faults = FALSE
    /\ hw_buffers = {buffer_size}
    /\ setup = TRUE /\ state = "PREPARED" /\ hw_ptr = 0 /\ appl_ptr = 0
    /\ stopped_areas = FALSE
    /\ link_fd = [d \in Devices |-> FALSE]
    /\ InitCall

NextScenario ==
    \/ \E sz \in req_sizes : snd_pcm_writei(sz)
    \/ write_areas_again
    \/ snd_pcm_wait_ready
    \/ snd_pcm_wait_signal
    \/ app_continue
    \/ \E k \in hw_steps : hw_advance(k)
    \/ hw_xrun
    \/ snd_pcm_prepare

SpecScenario == InitScenario /\ [][NextScenario]_vars

\* ------------------------------------------------------------------------
\* Properties
\* ------------------------------------------------------------------------

\* a transfer call has just returned to the application
Returned == pc = "returned" /\ op \in {"read", "write"}

\* C1, as stated: a transfer call made in XRUN returns -EPIPE, invokes the
\* callback not once and leaves both pointers where they were, whatever its size.
C1_XrunAnySize ==
    (Returned /\ e_state = "XRUN")
        => (ret = -EPIPE /\ ncb = 0 /\ appl_ptr = e_appl /\ hw_ptr = e_hw)

\* C1, amended: a transfer call of a positive size made in XRUN returns -EPIPE,
\* invokes the callback not once and leaves both pointers where they were; a
\* call of size 0 returns 0 before the state is looked at.
C1_XrunRejected ==
    (Returned /\ e_state = "XRUN")
        => /\ ncb = 0 /\ navail = 0 /\ appl_ptr = e_appl /\ hw_ptr = e_hw
           /\ ret = (IF req > 0 THEN -EPIPE ELSE 0)

C1_Witness ==
    Returned /\ e_state = "XRUN" /\ state = "XRUN" /\ req > 0 /\ ret = -EPIPE

\* the states in which each transfer goes on to its loop
WriteStates == {"PREPARED", "RUNNING"}

ReadStates == {"PREPARED", "RUNNING", "DRAINING"}

LegalStates(o) == IF o = "write" THEN WriteStates ELSE ReadStates

\* the call is inside its loop or has been through it
InCall == pc \in {"again", "wait"} /\ op \in {"read", "write"}

\* C2, as stated: a write goes on only from PREPARED or RUNNING, a read only from
\* PREPARED, RUNNING or DRAINING; a call made in XRUN returns -EPIPE and a call
\* made in any other state -EBADFD, without an availability query, a wait or a
\* callback, whatever its size.
C2_GateAnySize ==
    /\ (InCall \/ (Returned /\ navail + nwait + ncb > 0)) => e_state \in LegalStates(op)
    /\ (Returned /\ e_state = "XRUN") => ret = -EPIPE
    /\ (Returned /\ e_state \notin (LegalStates(op) \cup {"XRUN"}))
           => (ret = -EBADFD /\ navail = 0 /\ nwait = 0 /\ ncb = 0)

\* C2, amended: the same for calls of a positive size; a call of size 0 returns
\* 0 in every state, before the state is looked at. A call of a positive size
\* made in a legal state goes on to its loop, but for a read in PREPARED whose
\* start fails.
C2_Gate ==
    /\ (InCall \/ (Returned /\ navail + nwait + ncb > 0))
           => (e_state \in LegalStates(op) /\ req > 0)
    /\ (Returned /\ e_state \in LegalStates(op) /\ req > 0 /\ navail = 0)
           => (/\ op = "read" /\ e_state = "PREPARED" /\ req >= start_threshold
               /\ ret < 0 /\ ret = err /\ ncb = 0 /\ nwait = 0)
    /\ (Returned /\ e_state = "XRUN") => ret = (IF req > 0 THEN -EPIPE ELSE 0)
    /\ (Returned /\ e_state \notin (LegalStates(op) \cup {"XRUN"}))
           => ret = (IF req > 0 THEN -EBADFD ELSE 0)

C2_Witness ==
    /\ Returned /\ op = "write" /\ e_state = "DRAINING" /\ req > 0
    /\ ret = -EBADFD /\ navail = 0 /\ appl_ptr # hw_ptr

\* C3: on a non-blocking device, a write of a positive size made in PREPARED or
\* RUNNING whose availability query answers 0 returns -EAGAIN, with no callback
\* and the application pointer where it was.
C3_WouldBlock ==
    (/\ Returned /\ op = "write" /\ nonblock /\ req > 0
     /\ e_state \in WriteStates
     /\ navail = 1 /\ ncb = 0 /\ snd_pcm_avail_update = 0)
        => (ret = -EAGAIN /\ moved = 0 /\ nwait = 0 /\ appl_ptr = e_appl)

\* C4: the writes issue start exactly once after PREPARED was entered: not while
\* fewer than start_threshold frames are queued, at the first chunk that brings
\* the queue to start_threshold, and never again once the device was started.
C4_StartOnce ==
    /\ nstart <= 1
    /\ ~belowStart
    /\ (op = "write" /\ pc \in {"again", "returned"} /\ ncb > 0 /\ state = "PREPARED")
           => Queued < start_threshold

\* C5: in the scenario, the write of 1024 frames made in PREPARED on the empty
\* buffer returns 1024, issues start once and leaves the device RUNNING; a write
\* of 1024 frames made in RUNNING with room for it returns 1024 and has moved the
\* application pointer by exactly 1024 frames.
C5_Scenario ==
    /\ (Returned /\ op = "write" /\ e_state = "PREPARED" /\ e_appl = e_hw)
           => (ret = ScnPeriod /\ nstart = 1 /\ state = "RUNNING"
               /\ appl_ptr = (e_appl + ScnPeriod) % boundary)
    /\ (/\ Returned /\ op = "write" /\ e_state = "RUNNING"
        /\ (e_appl - e_hw) % boundary <= ScnBuffer - ScnPeriod)
           => (ret = ScnPeriod /\ appl_ptr = (e_appl + ScnPeriod) % boundary)

\* the second write of the scenario has returned
C5_Witness ==
    /\ Returned /\ op = "write" /\ e_state = "RUNNING" /\ req = ScnPeriod
    /\ e_appl = ScnPeriod /\ appl_ptr = 2 * ScnPeriod /\ ret = ScnPeriod
    /\ nstart = 1

\* a step of the transfer loop: the call leaves _again or has moved frames
LoopStep == pc = "again" /\ (pc' # pc \/ xfer' # xfer)

\* C6: a read that finds no frame available while the state is DRAINING does not
\* wait: it returns at once, the frames transferred so far when there are some,
\* -EPIPE otherwise; no read waits in DRAINING.
C6_DrainingRead ==
    [][/\ (LoopStep /\ op = "read" /\ state = "DRAINING" /\ snd_pcm_avail_update = 0)
           => /\ pc' = "returned" /\ nwait' = nwait /\ ncb' = ncb
              /\ ret' = (IF xfer > 0 THEN xfer ELSE -EPIPE)
       /\ (op' = "read" /\ state' = "DRAINING") => pc' # "wait"]_vars

C6_Witness ==
    /\ Returned /\ op = "read" /\ state = "DRAINING" /\ lstate = "DRAINING"
    /\ snd_pcm_avail_update = 0 /\ err = -EPIPE /\ xfer > 0 /\ ret = xfer
    /\ ret < req /\ nwait = 0 /\ ~nonblock

\* C7: a call returns the frames its callback moved when it moved some, whatever
\* ended the loop, and otherwise an error (the last one of the loop); the frames
\* moved never exceed the request, and transferred + remaining = request
\* (rounded) throughout the loop.
C7_ShortTransfer ==
    /\ moved <= req
    /\ (InCall \/ Returned) => xfer + size = req
    /\ Returned =>
           /\ moved > 0 => ret = moved
           /\ moved = 0 => (ret <= 0 /\ (req > 0 => ret < 0))
           /\ (moved = 0 /\ navail > 0) => ret = err

C7_Witness ==
    Returned /\ moved > 0 /\ err < 0 /\ ret = moved /\ ret < req /\ ncb > 1

\* C8: a blocking write made in PREPARED or RUNNING returns less than the
\* request (rounded) only when a signal interrupted its wait or an underrun
\* occurred (transport failures of the callback set aside).
C8_BlockingComplete ==
    (/\ Returned /\ op = "write" /\ ~nonblock /\ req > 0
     /\ e_state \in WriteStates
     /\ err # -EIO
     /\ ret < req)
        => (err = -EINTR \/ state = "XRUN")

\* C9, as stated: a negative callback return ends the loop; any other return k,
\* smaller than the chunk or not, is accounted for: the call goes on and its
\* counters have advanced by exactly the frames returned.
C9_PartialLegal ==
    (op \in {"read", "write"} /\ ncb > 0)
        => /\ cbret < 0 => (pc = "returned" /\ err = cbret)
           /\ cbret >= 0 => (pc # "aborted" /\ xfer = moved /\ size = req - moved)

\* C9, amended: a negative callback return ends the loop; a return equal to the
\* chunk advances the counters by exactly that count; a non-negative return
\* smaller than the chunk fails the loop's assertion, it is not accounted for.
C9_CallbackAccounting ==
    (op \in {"read", "write"} /\ ncb > 0)
        => /\ cbret < 0 => (pc = "returned" /\ err = cbret /\ xfer + size = req)
           /\ (cbret >= 0 /\ cbret = frames)
                  => (pc # "aborted" /\ xfer = moved /\ size = req - moved)
           /\ (cbret >= 0 /\ cbret # frames)
                  => (pc = "aborted" /\ xfer + size = req /\ moved = xfer + cbret)

C9_Witness ==
    pc = "aborted" /\ ncb > 1 /\ cbret > 0 /\ cbret < frames /\ xfer > 0

\* C10: snd_pcm_mmap_begin answers offset = appl_ptr mod buffer_size and
\* granted = min(wanted, available, buffer_size - offset): the span granted
\* never crosses the end of the buffer.
C10_NoWrapSpan ==
    [][mmapVars' # mmapVars
           => /\ m_offset' = appl_ptr % buffer_size
              /\ m_frames' = Min(Min(m_wanted', snd_pcm_mmap_avail(hw_ptr, appl_ptr)),
                                 buffer_size - m_offset')
              /\ m_offset' + m_frames' <= buffer_size]_vars

\* a grant cut at the end of the buffer although more frames are available
C10_Witness ==
    /\ m_offset > 0 /\ m_frames > 0 /\ m_frames < m_wanted
    /\ m_offset + m_frames = buffer_size
    /\ m_offset = MmapOffset(appl_ptr)
    /\ m_frames < snd_pcm_mmap_avail(hw_ptr, appl_ptr)

\* a call of the memory-mapped protocol has just returned, or has aborted
AccessDone(o) == pc \in {"returned", "aborted"} /\ op = o

\* C11, as stated: snd_pcm_mmap_begin answers the stopped areas exactly when
\* they exist and the device has not been started yet (a state before RUNNING);
\* in RUNNING, XRUN, DRAINING and PAUSED it answers the running areas.
C11_StoppedBeforeStart ==
    AccessDone("begin")
        => (m_areas = "stopped"
                <=> (stopped_areas /\ e_state \in {"OPEN", "SETUP", "PREPARED"}))

\* C11, amended: snd_pcm_mmap_begin answers the stopped areas exactly when they
\* exist and the state is not RUNNING (XRUN, DRAINING and PAUSED included); it
\* answers the running areas in RUNNING or when there are no stopped areas.
C11_StoppedAreas ==
    AccessDone("begin")
        => /\ m_areas \in {"stopped", "running"}
           /\ m_areas = "stopped" <=> (stopped_areas /\ e_state # "RUNNING")

C11_Witness ==
    /\ AccessDone("begin") /\ stopped_areas /\ e_state = "XRUN" /\ state = "XRUN"
    /\ m_areas = "stopped"

\* the arguments of the commit violate its precondition
BadCommit ==
    \/ c_offset # e_appl % buffer_size
    \/ req > snd_pcm_mmap_avail(e_hw, e_appl)

\* C12, as stated: a commit with an offset other than appl_ptr mod buffer_size,
\* or with more frames than are available, returns -EINVAL, is not forwarded to
\* fast_ops->mmap_commit and leaves the application pointer where it was.
C12_CommitRejected ==
    (AccessDone("commit") /\ BadCommit)
        => (pc = "returned" /\ ret = -EINVAL /\ ~c_fwd /\ appl_ptr = e_appl)

\* C12, amended: such a commit fails an assertion of snd_pcm_mmap_commit: the
\* process aborts and no error is returned; the commit is not forwarded and the
\* application pointer stays where it was. Every other commit is forwarded.
C12_CommitAsserts ==
    AccessDone("commit")
        => /\ BadCommit => (pc = "aborted" /\ ~c_fwd /\ appl_ptr = e_appl /\ ret = 0)
           /\ ~BadCommit => (pc = "returned" /\ c_fwd)

\* a commit of more frames than available, at the right offset
C12_Witness ==
    /\ AccessDone("commit") /\ pc = "aborted" /\ c_offset = e_appl % buffer_size
    /\ req > snd_pcm_mmap_avail(e_hw, e_appl) /\ req <= buffer_size

\* C13: after a commit of frames that succeeded, the hardware pointer not having
\* moved, the application pointer has advanced by exactly frames modulo boundary
\* and the available frames are exactly frames fewer than before the commit.
C13_CommitAdvances ==
    (AccessDone("commit") /\ pc = "returned" /\ ret = 0)
        => /\ hw_ptr = e_hw
           /\ appl_ptr = (e_appl + req) % boundary
           /\ snd_pcm_avail_update = snd_pcm_mmap_avail(e_hw, e_appl) - req
           /\ snd_pcm_avail_update >= 0

\* a commit of granted frames that takes the application pointer over the boundary
C13_Witness ==
    /\ AccessDone("commit") /\ pc = "returned" /\ ret = 0
    /\ req > 0 /\ req <= m_frames /\ c_offset = m_offset
    /\ e_appl + req = boundary /\ appl_ptr = 0

\* is the list p a prefix of the list q
IsPrefix(p, q) == Len(p) <= Len(q) /\ \A i \in 1..Len(p) : p[i] = q[i]

\* the operations a close has to go through, in order
CloseOrder ==
    IF cl_setup
    THEN <<IF nonblock \/ stream = "CAPTURE" THEN "drop" ELSE "drain", "hw_free", "close">>
    ELSE <<"close">>

\* C14: snd_pcm_close of a configured handle issues a drain when the handle is
\* blocking playback and a drop when it is capture or non-blocking, then frees
\* the hardware configuration, then closes the transport, in this order; a
\* handle with no configuration is closed with neither drain nor drop.
C14_CloseOrder ==
    op = "close"
        => /\ IsPrefix(calls, CloseOrder)
           /\ cl_setup => Len(calls) >= 1
           /\ pc = "close_drain" => calls = <<"drain">>
           /\ pc = "closed" => (calls = CloseOrder /\ ret = 0 /\ ~setup)
           /\ (pc = "returned" /\ calls # CloseOrder) => calls = SubSeq(CloseOrder, 1, 2)

\* a blocking playback handle closed while running with frames pending
C14_Witness ==
    /\ op = "close" /\ pc = "closed" /\ cl_setup /\ ~nonblock /\ stream = "PLAYBACK"
    /\ e_state = "RUNNING" /\ e_appl # e_hw
    /\ calls = <<"drain", "hw_free", "close">>

\* C15: snd_async_add_pcm_handler enables the asynchronous notification exactly
\* when it adds a handler to an empty list, not for the later handlers; when
\* enabling fails it returns the error and the list does not hold the new handler.
C15_AsyncSubscription ==
    (pc = "returned" /\ op = "async_add")
        => /\ a_enabled <=> (a_id # 0 /\ a_was_empty)
           /\ ret < 0 => (a_id \notin Elems(async_handlers)
                           /\ (a_id # 0 => (a_enabled /\ async_handlers = <<>>)))
           /\ ret = 0 => /\ a_id # 0 /\ async_mode
                          /\ async_handlers[Len(async_handlers)] = a_id
                          /\ a_was_empty <=> Len(async_handlers) = 1

\* a second handler added: the notification is not enabled again
C15_Witness ==
    /\ pc = "returned" /\ op = "async_add" /\ ret = 0
    /\ Len(async_handlers) = 2 /\ ~a_enabled /\ ~a_was_empty /\ async_mode

\* C16: snd_pcm_link returns -ENOSYS without calling the driver when either
\* device has no link descriptor, and otherwise forwards the request and returns
\* the driver's failure; snd_pcm_unlink of a device with no link descriptor or in
\* no group returns an error and changes nothing.
C16_LinkUnlink ==
    /\ (pc = "returned" /\ op = "link")
           => IF link_fd[l_args[1]] /\ link_fd[l_args[2]]
              THEN /\ l_ioctl
                   /\ ret = 0 => {l_args[1], l_args[2]} \subseteq l_group
                   /\ ret < 0 => (ret # -ENOSYS /\ l_group = l_before)
              ELSE ret = -ENOSYS /\ ~l_ioctl /\ l_group = l_before
    /\ (pc = "returned" /\ op = "unlink"
            /\ (~link_fd[l_args[1]] \/ l_args[1] \notin l_before))
           => (ret < 0 /\ l_group = l_before)

\* a link refused because the second device alone has no link descriptor
C16_Witness ==
    /\ pc = "returned" /\ op = "link" /\ link_fd[l_args[1]] /\ ~link_fd[l_args[2]]
    /\ ret = -ENOSYS /\ ~l_ioctl /\ l_group = {}

\* the 4-bit position of sample idx of an area: bit first + step * idx from addr
SamplePos(area, idx) == 2 * area.addr + ((area.first + area.step * idx) \div 4)

\* the sample idx of an area, w bits wide, as it lies in memory
SampleAt(m, area, idx, w) ==
    SubSeq(m, SamplePos(area, idx) + 1, SamplePos(area, idx) + (w \div 4))

\* the single-area primitive called once for each channel, from channel i on
RECURSIVE SilenceEach(_, _, _, _, _, _)
SilenceEach(m, areas, i, dst_offset, n, fmt) ==
    IF i > Len(areas) THEN m
    ELSE SilenceEach(snd_pcm_area_silence(m, areas[i], dst_offset, n, fmt),
                     areas, i + 1, dst_offset, n, fmt)

RECURSIVE CopyEach(_, _, _, _, _, _, _, _)
CopyEach(m, dsts, srcs, i, dst_offset, src_offset, n, fmt) ==
    IF i > Len(dsts) THEN m
    ELSE CopyEach(snd_pcm_area_copy(m, dsts[i], dst_offset, srcs[i], src_offset, n, fmt),
                  dsts, srcs, i + 1, dst_offset, src_offset, n, fmt)

\* C17: snd_pcm_areas_silence and snd_pcm_areas_copy leave memory as one call of
\* the single-area primitive for each channel, with that channel's area, the
\* same offsets and frame count, would: collapsing a run changes nothing.
C17_CollapseTransparent ==
    /\ k_op = "areas_silence"
           => mem = SilenceEach(InitMem, k_args.dsts, 1, k_args.doff, k_args.n, k_args.fmt)
    /\ k_op = "areas_copy"
           => mem = CopyEach(InitMem, k_args.dsts, k_args.srcs, 1, k_args.doff,
                             k_args.soff, k_args.n, k_args.fmt)

\* the copy was made at frame offset 0, source and destination addressed alike
SameAddressing ==
    /\ k_args.doff = 0 /\ k_args.soff = 0
    /\ k_args.dsts[1].first = k_args.srcs[1].first
    /\ k_args.dsts[1].step = k_args.srcs[1].step

\* C18: a pattern copied by snd_pcm_area_copy into a freshly silenced area has
\* its sample i at sample position i of the destination, and copied back through
\* the addressing of the source it is the original sequence of samples, for
\* every width, every sample count, unit and non-unit stride, zero and non-zero
\* bit offset.
C18_RoundTrip ==
    /\ (k_op = "silence_copy" /\ SameAddressing)
           => \A i \in 0..(k_args.n - 1) :
                  SampleAt(mem, k_args.dsts[1], i, k_args.fmt.width)
                      = SampleAt(InitMem, k_args.srcs[1], i, k_args.fmt.width)
    /\ (k_op = "round_trip" /\ SameAddressing)
           => \A i \in 0..(k_args.n - 1) :
                  SampleAt(mem, Readback(k_args.srcs[1]), i, k_args.fmt.width)
                      = SampleAt(InitMem, k_args.srcs[1], i, k_args.fmt.width)

\* the 4-bit positions the call addresses in its destination
Addressed == {SamplePos(k_args.dsts[1], k_args.doff + i) : i \in 0..(k_args.n - 1)}

\* C19: with 4-bit samples, snd_pcm_area_silence and snd_pcm_area_copy write the
\* addressed half of each destination byte and no other: whatever the halves
\* the source and the destination are on, the stride and the frame offset, the
\* i-th addressed position holds the silence, or the i-th source sample, and
\* every other position holds what it held.
C19_NibblePreserved ==
    (/\ k_op \in {"silence", "copy"} /\ k_args.fmt.width = 4
     /\ k_args.dsts[1].addr # NULL
     /\ k_op = "copy" => k_args.srcs[1].addr # NULL)
        => /\ \A p \in 0..(MemNibbles - 1) :
                  p \notin Addressed => mem[p + 1] = InitMem[p + 1]
           /\ \A i \in 0..(k_args.n - 1) :
                  mem[SamplePos(k_args.dsts[1], k_args.doff + i) + 1]
                      = IF k_op = "silence" THEN k_args.fmt.sil[1]
                        ELSE InitMem[SamplePos(k_args.srcs[1], k_args.soff + i) + 1]

\* C20: snd_pcm_area_copy from an area with no memory leaves the destination as
\* snd_pcm_area_silence of it would; a copy or a silence whose destination has
\* no memory changes nothing; all return 0.
C20_NullAreas ==
    /\ (k_op = "copy" /\ k_args.srcs[1].addr = NULL)
           => /\ mem = snd_pcm_area_silence(InitMem, k_args.dsts[1], k_args.doff,
                                            k_args.n, k_args.fmt)
              /\ ret = 0
    /\ (k_op \in {"copy", "silence"} /\ k_args.dsts[1].addr = NULL)
           => (mem = InitMem /\ ret = 0)

\* a copy from no memory that has silenced samples of the destination
C20_Witness ==
    /\ k_op = "copy" /\ pc = "returned" /\ ret = 0
    /\ k_args.srcs[1].addr = NULL /\ k_args.dsts[1].addr # NULL
    /\ mem # InitMem
    /\ SampleAt(mem, k_args.dsts[1], k_args.doff, k_args.fmt.width) = k_args.fmt.sil

\* the calls that move data or a position
PositionOrData ==
    \/ snd_pcm_prepare \/ snd_pcm_reset \/ snd_pcm_start \/ snd_pcm_drop \/ snd_pcm_drain
    \/ \E enable \in BOOLEAN : snd_pcm_pause(enable)
    \/ \E fr \in 0..MaxSize : snd_pcm_rewind(fr)
    \/ snd_pcm_delay
    \/ \E sz \in req_sizes : snd_pcm_writei(sz) \/ snd_pcm_readi(sz)
    \/ \E w \in req_sizes : snd_pcm_mmap_begin(w)
    \/ \E o \in 0..(MaxBuffer - 1), f \in req_sizes : snd_pcm_mmap_commit(o, f)
    \/ avail_update

\* C21: each of prepare, reset, start, drop, drain, pause, rewind, delay, the
\* transfers, snd_pcm_mmap_begin, snd_pcm_mmap_commit and snd_pcm_avail_update
\* made on a handle with no hardware configuration stops at the check of the
\* configuration: the call does not return and nothing of the device changes.
C21_SetupChecked ==
    [][(~setup /\ PositionOrData) => (pc' = "aborted" /\ UNCHANGED <<devVars, ret>>)]_vars

\* C22, as stated: snd_pcm_hw_params called in OPEN or SETUP that succeeds leaves
\* the handle in SETUP.
C22_InstallLeavesSetup ==
    (pc = "returned" /\ op = "hw_params" /\ ret >= 0) => state = "SETUP"

\* C22, amended: snd_pcm_hw_params called in OPEN or SETUP that succeeds has
\* installed the configuration and prepared the device: the handle is in
\* PREPARED with both pointers at 0; a call that fails leaves the handle in the
\* state it had or in SETUP, never in PREPARED.
C22_InstallPrepares ==
    (pc = "returned" /\ op = "hw_params") =>
        /\ e_state \in {"OPEN", "SETUP"}
        /\ ret >= 0 => /\ setup /\ state = "PREPARED"
                       /\ hw_ptr = 0 /\ appl_ptr = 0
                       /\ buffer_size = req
        /\ ret < 0 => state \in {e_state, "SETUP"}

C22_Witness ==
    /\ pc = "returned" /\ op = "hw_params" /\ ret = 0
    /\ e_state = "OPEN" /\ state = "PREPARED"

\* C23: the silence parameters a configured handle holds fit in its buffer:
\* silence_threshold + silence_size <= buffer_size, whatever setters, software
\* installs and hardware installs came before.
C23_SilenceInvariant ==
    setup => silence_threshold + silence_size <= buffer_size

\* C24, as stated: a signal delivered during the wait of a blocking transfer
\* sends the call back to the head of its loop, the state read again; the call
\* does not return because of it.
C24_SignalRechecks ==
    [][snd_pcm_wait_signal => (pc' = "again" /\ lstate' = state)]_vars

\* C24, amended: a signal delivered during the wait of a blocking transfer ends
\* the call: it returns the frames transferred so far when there are some, a
\* short count, and -EINTR when there are none; nothing is read again and no
\* pointer moves.
C24_SignalEndsCall ==
    [][snd_pcm_wait_signal =>
          /\ pc' = "returned" /\ err' = -EINTR
          /\ ret' = (IF xfer > 0 THEN xfer ELSE -EINTR)
          /\ ret' < req
          /\ UNCHANGED <<appl_ptr, hw_ptr, state, lstate, ncb, moved, navail>>]_vars

C24_Witness ==
    /\ Returned /\ ~nonblock /\ err = -EINTR /\ nwait > 0
    /\ xfer > 0 /\ ret = xfer /\ ret < req /\ state = "RUNNING"

\* one iteration of the loop of a transfer call
Iteration == write_areas_again \/ read_areas_again

\* what the iteration about to run decides from the values it reads
Decision ==
    IF op = "write" THEN WriteDecision(lstate, size, snd_pcm_avail_update)
    ELSE ReadDecision(lstate, size, snd_pcm_avail_update)

C26_NeverSuspends ==
    [][/\ nonblock => (pc' # "wait" /\ nwait' = 0)
       /\ (nonblock /\ Iteration /\ Decision = "wait") =>
             /\ pc' = "returned" /\ err' = -EAGAIN
             /\ ret' = (IF xfer > 0 THEN xfer ELSE -EAGAIN)
             /\ UNCHANGED <<appl_ptr, hw_ptr, state, ncb, moved>>]_vars

C26_Witness ==
    /\ Returned /\ nonblock /\ err = -EAGAIN /\ nwait = 0
    /\ xfer > 0 /\ ret = xfer /\ ret < req /\ MustWait(size, snd_pcm_avail_update)

\* the iteration about to run is neither a read while draining nor a write
\* that still sees PREPARED: its wait condition is the general one
Ordinary ==
    /\ ~(op = "read" /\ lstate = "DRAINING")
    /\ ~(op = "write" /\ lstate = "PREPARED")

\* the step suspended the call, or ended it with -EAGAIN on a non-blocking handle
Waited == pc' = "wait" \/ (pc' = "returned" /\ err' = -EAGAIN)

C28_CaptureAutoStart ==
    (/\ op = "read" /\ e_state = "PREPARED" /\ req > 0
     /\ pc \in {"again", "wait", "returned"})
        => IF req >= start_threshold
           THEN \/ state # "PREPARED"
                \/ /\ pc = "returned" /\ ret < 0 /\ ret = err
                   /\ navail = 0 /\ ncb = 0 /\ moved = 0 /\ xfer = 0
                   /\ appl_ptr = e_appl
           ELSE state = "PREPARED"

\* the start of a read failed
C28_Witness ==
    /\ Returned /\ op = "read" /\ e_state = "PREPARED" /\ req >= start_threshold
    /\ state = "PREPARED" /\ ret = -EIO /\ navail = 0

\* C30: once the device has gone from RUNNING to XRUN during a transfer call,
\* in its wait or between two chunks, the call hands nothing more to the
\* callback: its next iteration ends it, with the frames transferred so far or
\* with -EPIPE when there are none.
C30_XrunEndsTransfer ==
    [][(Iteration /\ e_state = "RUNNING" /\ state = "XRUN") =>
          /\ pc' = "returned"
          /\ ret' = (IF xfer > 0 THEN xfer ELSE -EPIPE)
          /\ UNCHANGED <<appl_ptr, moved, ncb>>]_vars

\* a blocking call made in RUNNING has returned, the device still RUNNING
ReturnedRunning ==
    /\ Returned /\ ~nonblock /\ req > 0
    /\ e_state = "RUNNING" /\ state = "RUNNING"

\* a blocking call in progress returns, unless the device leaves RUNNING
EventuallyReturns ==
    (InCall /\ ~nonblock) ~> (pc \in {"returned", "aborted"} \/ state # "RUNNING")

\* C29, as stated: on a blocking handle whose device stays RUNNING, the
\* hardware advancing and the readiness reported fairly, every transfer call
\* returns, and returns the whole size requested (rounded) unless the
\* callback failed.
C29_ReturnsFullSize ==
    /\ EventuallyReturns
    /\ [](ReturnedRunning => (ret = req \/ err = -EIO))

\* C29, amended: on a blocking handle whose device stays RUNNING, the
\* hardware advancing and the readiness reported fairly, every transfer call
\* returns; it returns the whole size requested (rounded) unless the callback
\* failed or a signal interrupted its wait, in which case it returns the
\* frames transferred so far, or -EINTR when there are none.
C29_ReturnsUnlessSignal ==
    /\ EventuallyReturns
    /\ [](ReturnedRunning =>
             \/ ret = req
             \/ err = -EIO
             \/ err = -EINTR /\ nwait > 0 /\ ret = (IF xfer > 0 THEN xfer ELSE -EINTR))

\* a call larger than the buffer returned the whole size after it waited
C29_Witness ==
    /\ ReturnedRunning /\ nwait > 0 /\ req = MaxSize /\ ret = req

\* C31: in a call whose size (rounded) is at least one alignment unit, every
\* chunk handed to the callback is a positive multiple of xfer_align and the
\* size that remains is a multiple of xfer_align.
C31_ChunkAligned ==
    (/\ op \in {"read", "write"} /\ pc \in {"again", "wait", "returned"}
     /\ req >= xfer_align /\ ncb > 0)
        => /\ frames > 0 /\ frames % xfer_align = 0
           /\ (cbret >= 0 => size % xfer_align = 0)

\* the availability values a driver may answer
AvailValues == (0 - 1)..(MaxBuffer + 1)

C33_FillLevel ==
    [][(/\ write_areas_again /\ lstate = "PREPARED" /\ state = "PREPARED"
        /\ pc' # "aborted" /\ appl_ptr' # appl_ptr) =>
          HwAvail(AlignDown(snd_pcm_avail_update, xfer_align), frames')
              = buffer_size - snd_pcm_avail_update']_vars

Cached ==
    [tstamp_mode |-> tstamp_mode, period_step |-> period_step, sleep_min |-> sleep_min,
     avail_min |-> avail_min, xfer_align |-> xfer_align,
     start_threshold |-> start_threshold, stop_threshold |-> stop_threshold,
     silence_threshold |-> silence_threshold, silence_size |-> silence_size,
     boundary |-> boundary]

\* the same ten fields of a container
Stored(p) ==
    [tstamp_mode |-> p.tstamp_mode, period_step |-> p.period_step,
     sleep_min |-> p.sleep_min, avail_min |-> p.avail_min, xfer_align |-> p.xfer_align,
     start_threshold |-> p.start_threshold, stop_threshold |-> p.stop_threshold,
     silence_threshold |-> p.silence_threshold, silence_size |-> p.silence_size,
     boundary |-> p.boundary]

\* C35: when snd_pcm_sw_params fails, none of the ten cached fields of the
\* handle changes; when it succeeds, all ten equal the container's; no other
\* call changes them, and snd_pcm_sw_params_current stores exactly these ten
\* fields, those of the container last installed, into its container.
C35_CachedOnSuccess ==
    /\ [][snd_pcm_sw_params =>
             /\ params' = params
             /\ IF ret' < 0 THEN Cached' = Cached ELSE Cached' = Stored(params)]_vars
    /\ [][Cached' # Cached => (snd_pcm_sw_params /\ ret' = 0)]_vars
    /\ [][(snd_pcm_sw_params_current /\ pc' # "aborted")
             => (Stored(params') = Cached /\ Cached' = Cached)]_vars

\* a container that differs from the handle in every field with a setter was
\* refused by the driver
C35_Witness ==
    /\ pc = "returned" /\ op = "sw_params" /\ ret < 0
    /\ params.tstamp_mode # tstamp_mode /\ params.sleep_min # sleep_min
    /\ params.avail_min # avail_min /\ params.start_threshold # start_threshold
    /\ params.stop_threshold # stop_threshold
    /\ Cached # [Cached EXCEPT !.tstamp_mode = 0, !.sleep_min = 0, !.avail_min = 1]

\* C36: whatever boundary and buffer size are installed, a start mode stored
\* with snd_pcm_sw_params_set_start_mode is the one
\* snd_pcm_sw_params_get_start_mode reads back, for SND_PCM_START_EXPLICIT and
\* SND_PCM_START_DATA, and an xrun mode stored with
\* snd_pcm_sw_params_set_xrun_mode is the one snd_pcm_sw_params_get_xrun_mode
\* reads back, for SND_PCM_XRUN_NONE and SND_PCM_XRUN_STOP.
C36_ModeRoundTrip ==
    (setup /\ params.filled)
        => /\ \A val \in StartModes : GetStartMode(SetStartMode(params, val)) = val
           /\ \A val \in XrunModes : GetXrunMode(SetXrunMode(params, val)) = val

\* C37, as stated: for every sample width from 4 to 64 bits, every number of
\* channels and every frame count f >= 0, the bytes of f frames convert back to
\* f frames, and the bytes of s samples convert back to s samples.
C37_RoundTrip ==
    /\ \A fr \in UnitCounts : BytesToFrames(FramesToBytes(fr)) = fr
    /\ \A samples \in UnitCounts : BytesToSamples(SamplesToBytes(samples)) = samples

\* C37, amended: the bytes of f frames convert back to f frames exactly when f
\* frames fill a whole number of bytes (always so when frame_bits is a multiple
\* of 8), and to fewer than f frames otherwise; the same for samples and
\* sample_bits; each call answers what these formulas give.
C37_RoundTripWholeBytes ==
    /\ \A fr \in UnitCounts :
          /\ BytesToFrames(FramesToBytes(fr)) = fr <=> (fr * frame_bits) % 8 = 0
          /\ BytesToFrames(FramesToBytes(fr)) <= fr
    /\ \A samples \in UnitCounts :
          /\ BytesToSamples(SamplesToBytes(samples)) = samples
                <=> (samples * sample_bits) % 8 = 0
          /\ BytesToSamples(SamplesToBytes(samples)) <= samples
    /\ (pc = "returned" /\ op = "frames_to_bytes") => ret = (req * frame_bits) \div 8
    /\ (pc = "returned" /\ op = "bytes_to_frames") => ret = (req * 8) \div frame_bits

\* the bytes of 3 frames of 3 channels were converted back to 3 frames
C37_Witness ==
    /\ pc = "returned" /\ op = "bytes_to_frames" /\ ret = MaxSize - 1
    /\ req = FramesToBytes(ret) /\ frame_bits = 8 * MaxChannels

\* C38: when the first subscriber is added, ops->async receives the library's
\* signal number snd_async_signo as the signal to raise and the id of the
\* calling process as the process to signal.
C38_AsyncArguments ==
    (pc = "returned" /\ op = "async_add" /\ a_enabled)
        => (a_args.sig = snd_async_signo /\ a_args.pid = a_args.self)

\* C39: a snd_pcm_close that returns has failed in freeing the configuration or
\* in closing the transport and returns that error, the handle not released;
\* over the close attempts made on a configuration the implicit drain or drop
\* is issued at most once; after the successful close the list of subscribers
\* is empty.
C39_CloseRetry ==
    /\ (op = "close" /\ pc = "returned") => (ret < 0 /\ calls # <<>>)
    /\ cl_flushes <= 1
    /\ (op = "close" /\ pc = "closed") => (ret = 0 /\ async_handlers = <<>>)

\* C40: snd_pcm_hw_free asserts a configured handle in a state no later than
\* PREPARED; when it returns success the handle is no longer marked configured,
\* and when it returns an error the handle is still marked configured.
C40_FreeKeepsSetup ==
    [][snd_pcm_hw_free =>
          /\ pc' = "aborted" <=> ~(setup /\ HwFreeLegal(state))
          /\ pc' # "aborted" => IF ret' < 0 THEN setup' ELSE ~setup']_vars

====
